---------------------------- MODULE Spec2Model ----------------------------
(***************************************************************************)
(* A model of autokeras/keras_layers.py: the WordPiece tokenization        *)
(* pipeline (load_vocab, BasicTokenizer, WordpieceTokenizer, FullTokenizer,*)
(* BertTokenizer.bert_encode) and the einsum equation generators.          *)
(*                                                                         *)
(* A character is a one-element string naming it ("a", "#", "U+00E9"); a   *)
(* Python str is a sequence of characters.  The Python builtins the code   *)
(* calls on characters (ord, unicodedata.category, str.lower, NFD          *)
(* normalisation, str.isspace) are tables over the characters of the       *)
(* model.  Python indices are kept 0-based: chars[start:end] is            *)
(* SubSeq(chars, start + 1, end).                                          *)
(***************************************************************************)
EXTENDS Integers, Sequences, FiniteSets, TLC

VARIABLES
    vocab,                     \* WordpieceTokenizer.vocab / FullTokenizer.vocab
    unk_token,                 \* WordpieceTokenizer.unk_token
    max_input_chars_per_word,  \* WordpieceTokenizer.max_input_chars_per_word
    frame,                     \* frame[t]: the locals of thread t's tokenize call
    inv_vocab,                 \* FullTokenizer.inv_vocab
    loader,                    \* load_vocab's reader and index, with the file read
    max_sequence_length,       \* BertTokenizer.max_sequence_length
    encode,                    \* the bert_encode call: its input and what it returned
    full,                      \* full[t]: the locals of thread t's FullTokenizer calls
    equation,                  \* the equation generators: their arguments and results
    layers                     \* layers.<layer>: the arguments of a layer's call and
                               \* what it returned, None for a layer not used

vars == <<vocab, unk_token, max_input_chars_per_word, frame, inv_vocab, loader,
          max_sequence_length, encode, full, equation, layers>>

--------------------------------------------------------------------------
(* Characters *)

\* <<character, code point, Unicode general category>>
UnicodeData ==
    { <<"U+0000", 0, "Cc">>,  <<"U+0009", 9, "Cc">>,  <<" ", 32, "Zs">>,
      <<"#", 35, "Po">>,      <<"$", 36, "Sc">>,      <<".", 46, "Po">>,
      <<"=", 61, "Sm">>,      <<"~", 126, "Sm">>,     <<"A", 65, "Lu">>,
      <<"B", 66, "Lu">>,      <<"C", 67, "Lu">>,      <<"D", 68, "Lu">>,
      <<"E", 69, "Lu">>,
      <<"K", 75, "Lu">>,      <<"L", 76, "Lu">>,      <<"N", 78, "Lu">>,
      <<"P", 80, "Lu">>,      <<"S", 83, "Lu">>,      <<"U", 85, "Lu">>,
      <<"[", 91, "Ps">>,      <<"]", 93, "Pe">>,      <<"^", 94, "Sk">>,
      <<"a", 97, "Ll">>,      <<"b", 98, "Ll">>,      <<"c", 99, "Ll">>,
      <<"d", 100, "Ll">>,     <<"e", 101, "Ll">>,     <<"f", 102, "Ll">>,     <<"k", 107, "Ll">>,
      <<"l", 108, "Ll">>,     <<"n", 110, "Ll">>,     <<"p", 112, "Ll">>,
      <<"s", 115, "Ll">>,     <<"u", 117, "Ll">>,
      <<"U+00A0", 160, "Zs">>,   <<"U+00BF", 191, "Po">>,
      <<"U+00E9", 233, "Ll">>,   <<"U+0301", 769, "Mn">>,
      <<"U+4E2D", 20013, "Lo">>, <<"U+FFFD", 65533, "So">> }

Chars == { r[1] : r \in UnicodeData }

\* the table by character, and by code point
ByChar == [c \in Chars |-> CHOOSE r \in UnicodeData : r[1] = c]

ByCodePoint == [cp \in { r[2] : r \in UnicodeData } |->
                   CHOOSE r \in UnicodeData : r[2] = cp]

ord(char) == ByChar[char][2]

chr(cp) == ByCodePoint[cp][1]

category(char) == ByChar[char][3]

\* str.isspace of one character: what str.strip() and str.split() cut at
isspace(char) == char \in {" ", "U+0009", "U+00A0"}

\* str.lower of one character: the upper-case letters of the table are ASCII
lower(char) == IF category(char) = "Lu" THEN chr(ord(char) + 32) ELSE char

\* unicodedata.normalize("NFD", char)
NFD(char) == IF char = "U+00E9" THEN <<"e", "U+0301">> ELSE <<char>>

\* the characters a category string starts with ("P" for "Po", "Ps", ...)
startswith(cat, prefix) == cat \in
    CASE prefix = "P" -> {"Pc", "Pd", "Ps", "Pe", "Pi", "Pf", "Po"}
      [] OTHER -> {}

--------------------------------------------------------------------------
(* Sequences *)

RECURSIVE FlattenRange(_, _, _)
\* seqs[lo] \o ... \o seqs[hi], by halves
FlattenRange(seqs, lo, hi) ==
    IF lo > hi THEN <<>>
    ELSE IF lo = hi THEN seqs[lo]
    ELSE LET mid == (lo + hi) \div 2
         IN  FlattenRange(seqs, lo, mid) \o FlattenRange(seqs, mid + 1, hi)

\* the concatenation of a sequence of sequences
Flatten(seqs) == FlattenRange(seqs, 1, Len(seqs))

\* the elements of a finite set of integers as an increasing sequence
Sorted(S) ==
    [j \in 1..Cardinality(S) |->
        CHOOSE x \in S : Cardinality({ y \in S : y < x }) = j - 1]

\* max(S) of a non-empty set of integers
MaxOfSet(S) == CHOOSE x \in S : \A y \in S : y <= x

\* all sequences over S of length 0..n
SeqsUpTo(S, n) == UNION { [1..k -> S] : k \in 0..n }

--------------------------------------------------------------------------
(* whitespace_tokenize, load_vocab, convert_by_vocab *)

\* str.split() with no separator: the maximal runs of non-space characters,
\* each from a position that starts a run to the last position of that run
split(text) ==
    LET n == Len(text)
        starts == Sorted({ k \in 1..n : /\ ~isspace(text[k])
                                        /\ (k = 1 \/ isspace(text[k - 1])) })
        last(k) == CHOOSE e \in k..n :
                       /\ \A m \in k..e : ~isspace(text[m])
                       /\ (e = n \/ isspace(text[e + 1]))
    IN  [j \in 1..Len(starts) |-> SubSeq(text, starts[j], last(starts[j]))]

\* str.strip(): leading and trailing space characters removed
strip(text) ==
    LET kept == { k \in 1..Len(text) : ~isspace(text[k]) }
    IN  IF kept = {} THEN <<>>
        ELSE SubSeq(text, CHOOSE k \in kept : \A m \in kept : k <= m,
                          CHOOSE k \in kept : \A m \in kept : m <= k)

whitespace_tokenize(text) ==
    LET stripped == strip(text)
    IN  IF stripped = <<>> THEN <<>> ELSE split(stripped)

\* dict.setdefault in place of the assignment: the first line with a token wins
SetItem_KeepFirst(d, key, value) ==
    [k \in DOMAIN d \cup {key} |-> IF k \in DOMAIN d THEN d[k] ELSE value]

\* vocab[token] = index: a later line with the same token replaces the entry
SetItem(d, key, value) ==
    [k \in DOMAIN d \cup {key} |-> IF k = key THEN value ELSE d[k]]

RECURSIVE load_vocab_loop(_, _, _)
load_vocab_loop(lines, index, d) ==
    IF lines = <<>> THEN d
    ELSE load_vocab_loop(Tail(lines), index + 1,
                         SetItem(d, strip(Head(lines)), index))

\* lines: what reader.readline() returns until the end of the file, the
\* line terminator left out (token.strip() removes it)
load_vocab(lines) == load_vocab_loop(lines, 0, <<>>)

\* {v: k for k, v in vocab.items()}
Inverse(d) ==
    [v \in { d[k] : k \in DOMAIN d } |-> CHOOSE k \in DOMAIN d : d[k] = v]

RECURSIVE convert_by_vocab_loop_Skip(_, _, _)
\* vocab.get(item) in place of vocab[item]: an item that is no key is left out
convert_by_vocab_loop_Skip(d, items, output) ==
    IF items = <<>> THEN [raised |-> FALSE, output |-> output]
    ELSE convert_by_vocab_loop_Skip(d, Tail(items),
             IF Head(items) \in DOMAIN d THEN Append(output, d[Head(items)])
             ELSE output)

RECURSIVE convert_by_vocab_loop(_, _, _)
\* [raised |-> FALSE, output |-> the list of d[item]], or raised |-> TRUE
\* (KeyError) with the output built so far when an item is no key of d
convert_by_vocab_loop(d, items, output) ==
    IF items = <<>> THEN [raised |-> FALSE, output |-> output]
    ELSE IF Head(items) \notin DOMAIN d
         THEN [raised |-> TRUE, output |-> output]
         ELSE convert_by_vocab_loop(d, Tail(items), Append(output, d[Head(items)]))

convert_by_vocab(d, items) == convert_by_vocab_loop(d, items, <<>>)

--------------------------------------------------------------------------
(* WordpieceTokenizer.tokenize as a function *)

ContinuationMarker == <<"#", "#">>

\* substr without the "##" in front at any start
Piece_Unprefixed(chars, start, end) == SubSeq(chars, start + 1, end)

\* substr of the inner loop: "".join(chars[start:end]), "##" + substr if start > 0
Piece(chars, start, end) ==
    LET substr == SubSeq(chars, start + 1, end)
    IN  IF start > 0 THEN ContinuationMarker \o substr ELSE substr

RECURSIVE InnerLoop(_, _, _, _)
\* the end the inner while loop stops at: the largest end whose piece is in
\* the vocabulary, or start when there is none (cur_substr is None)
InnerLoop(d, chars, start, end) ==
    IF start < end
    THEN IF Piece(chars, start, end) \in DOMAIN d THEN end
         ELSE InnerLoop(d, chars, start, end - 1)
    ELSE end

RECURSIVE OuterLoop(_, _, _, _)
OuterLoop(d, chars, start, sub_tokens) ==
    IF start < Len(chars)
    THEN LET end == InnerLoop(d, chars, start, Len(chars))
         IN  IF end = start
             THEN [is_bad |-> TRUE, sub_tokens |-> sub_tokens]
             ELSE OuterLoop(d, chars, end,
                            Append(sub_tokens, Piece(chars, start, end)))
    ELSE [is_bad |-> FALSE, sub_tokens |-> sub_tokens]

\* the output of one iteration of `for token in whitespace_tokenize(text)`
TokenPieces(d, unk, maxchars, token) ==
    IF Len(token) > maxchars THEN <<unk>>
    ELSE LET r == OuterLoop(d, token, 0, <<>>)
         IN  IF r.is_bad THEN <<unk>> ELSE r.sub_tokens

\* the output_tokens the loop over the tokens builds
ForTokens(d, unk, maxchars, tokens) ==
    Flatten([k \in 1..Len(tokens) |-> TokenPieces(d, unk, maxchars, tokens[k])])

WordpieceTokenizer_tokenize(d, unk, maxchars, text) ==
    ForTokens(d, unk, maxchars, whitespace_tokenize(text))

--------------------------------------------------------------------------
(* BasicTokenizer *)

_is_control(char) ==
    IF char = "U+0009" THEN FALSE
    ELSE category(char) \in {"Cc", "Cf"}

_is_whitespace(char) ==
    IF char = " " \/ char = "U+0009" THEN TRUE
    ELSE category(char) = "Zs"

_is_punctuation(char) ==
    LET cp == ord(char) IN
    IF \/ (cp >= 33 /\ cp <= 47)
       \/ (cp >= 58 /\ cp <= 64)
       \/ (cp >= 91 /\ cp <= 96)
       \/ (cp >= 123 /\ cp <= 126)
    THEN TRUE
    ELSE startswith(category(char), "P")

\* the CJK Unified Ideographs blocks, in decimal
_is_chinese_char(cp) ==
    \/ (cp >= 19968 /\ cp <= 40959)
    \/ (cp >= 13312 /\ cp <= 19903)
    \/ (cp >= 131072 /\ cp <= 173791)
    \/ (cp >= 173824 /\ cp <= 177983)
    \/ (cp >= 177984 /\ cp <= 178207)
    \/ (cp >= 178208 /\ cp <= 183983)
    \/ (cp >= 63744 /\ cp <= 64255)
    \/ (cp >= 194560 /\ cp <= 195103)

\* what the loop of _clean_text appends for one char: nothing, " " or char
clean_char(char) ==
    LET cp == ord(char) IN
    IF cp = 0 \/ cp = 65533 \/ _is_control(char) THEN <<>>
    ELSE IF _is_whitespace(char) THEN <<" ">>
    ELSE <<char>>

_clean_text(text) == Flatten([k \in 1..Len(text) |-> clean_char(text[k])])

\* what the loop of _tokenize_chinese_chars appends for one char
chinese_char(char) ==
    IF _is_chinese_char(ord(char)) THEN <<" ", char, " ">> ELSE <<char>>

_tokenize_chinese_chars(text) ==
    Flatten([k \in 1..Len(text) |-> chinese_char(text[k])])

\* token.lower()
str_lower(text) == [k \in 1..Len(text) |-> lower(text[k])]

\* unicodedata.normalize("NFD", text)
normalize_NFD(text) == Flatten([k \in 1..Len(text) |-> NFD(text[k])])

\* the loop of _run_strip_accents: the chars of category Mn are left out
drop_Mn(text) ==
    Flatten([k \in 1..Len(text) |->
                IF category(text[k]) = "Mn" THEN <<>> ELSE <<text[k]>>])

_run_strip_accents(text) == drop_Mn(normalize_NFD(text))

\* the output of the while loop of _run_split_on_punc: a punctuation char is a
\* word of its own (and start_new_word = True after it), every other char is
\* appended to the last word; so the words are every punctuation char and
\* every maximal run of other chars, in the order of their first position
_run_split_on_punc(text) ==
    LET chars == text
        n == Len(chars)
        starts == Sorted({ i \in 1..n :
                             \/ _is_punctuation(chars[i])
                             \/ i = 1
                             \/ _is_punctuation(chars[i - 1]) })
        last(i) == IF _is_punctuation(chars[i]) THEN i
                   ELSE CHOOSE e \in i..n :
                            /\ \A m \in i..e : ~_is_punctuation(chars[m])
                            /\ (e = n \/ _is_punctuation(chars[e + 1]))
    IN  [j \in 1..Len(starts) |-> SubSeq(chars, starts[j], last(starts[j]))]

\* sep.join(strings)
join(sep, strings) ==
    Flatten([k \in 1..(2 * Len(strings) - 1) |->
                IF k % 2 = 1 THEN strings[(k + 1) \div 2] ELSE sep])

\* the loop over orig_tokens: split_tokens
basic_for_tokens(orig_tokens, do_lower_case, split_on_punc) ==
    Flatten([k \in 1..Len(orig_tokens) |->
        LET token == IF do_lower_case
                     THEN _run_strip_accents(str_lower(orig_tokens[k]))
                     ELSE orig_tokens[k]
        IN  IF split_on_punc THEN _run_split_on_punc(token) ELSE <<token>>])

BasicTokenizer_tokenize(text, do_lower_case, split_on_punc) ==
    LET orig_tokens == whitespace_tokenize(_tokenize_chinese_chars(_clean_text(text)))
        split_tokens == basic_for_tokens(orig_tokens, do_lower_case, split_on_punc)
    IN  whitespace_tokenize(join(<<" ">>, split_tokens))

--------------------------------------------------------------------------
(* FullTokenizer, BertTokenizer *)

UNK == <<"[", "U", "N", "K", "]">>

CLS == <<"[", "C", "L", "S", "]">>

SEP == <<"[", "S", "E", "P", "]">>

PAD == <<"[", "P", "A", "D", "]">>

DefaultMaxInputChars == 400

\* the split_tokens the loops of FullTokenizer.tokenize build
full_for_tokens(d, tokens) ==
    Flatten([k \in 1..Len(tokens) |->
        WordpieceTokenizer_tokenize(d, UNK, DefaultMaxInputChars, tokens[k])])

\* FullTokenizer(vocab_file, do_lower_case=True).tokenize(text), d the vocabulary
FullTokenizer_tokenize(d, text) ==
    full_for_tokens(d, BasicTokenizer_tokenize(text, TRUE, TRUE))

convert_tokens_to_ids(d, tokens) == convert_by_vocab(d, tokens)

\* BertTokenizer.encode_sentence: [raised, output]
encode_sentence(d, s) ==
    convert_tokens_to_ids(d, Append(FullTokenizer_tokenize(d, s), SEP))

\* [encode_sentence(s[0]) for s in input_array]: the rows, each [raised, output]
get_encoded_sentence(d, input_tensor) ==
    [b \in 1..Len(input_tensor) |-> encode_sentence(d, input_tensor[b])]

\* RaggedTensor.to_tensor(): every row padded with 0 to the longest row
to_tensor(rows) ==
    LET width == IF rows = <<>> THEN 0
                 ELSE MaxOfSet({ Len(rows[b]) : b \in 1..Len(rows) })
    IN  [b \in 1..Len(rows) |->
            rows[b] \o [k \in 1..(width - Len(rows[b])) |-> 0]]

\* the slice taken from the other end: tensor[..., -n:]
take_last_axis_Tail(tensor, n) ==
    [b \in 1..Len(tensor) |->
        SubSeq(tensor[b], Len(tensor[b]) - n + 1, Len(tensor[b]))]

\* tensor[..., :n]
take_last_axis(tensor, n) ==
    [b \in 1..Len(tensor) |-> SubSeq(tensor[b], 1, n)]

\* the operands the other way round: tf.concat([sentence, cls], axis=-1)
concat_rows_ClsLast(cls, sentence) ==
    [b \in 1..Len(sentence) |-> sentence[b] \o cls[b]]

\* tf.concat([cls, sentence], axis=-1): row b is cls[b] ++ sentence[b]
concat_rows(cls, sentence) ==
    [b \in 1..Len(sentence) |-> cls[b] \o sentence[b]]

\* BertTokenizer.bert_encode on a batch of one sentence per row, max_len being
\* self.max_sequence_length:
\* [raised |-> TRUE] when a conversion raises KeyError, else the id tensor
bert_encode(d, max_len, input_tensor) ==
    LET sentence == get_encoded_sentence(d, input_tensor)
        cls == convert_tokens_to_ids(d, <<CLS>>)
    IN  IF (\E b \in 1..Len(sentence) : sentence[b].raised) \/ cls.raised
        THEN [raised |-> TRUE, output |-> <<>>]
        ELSE LET input_word_ids ==
                     to_tensor(concat_rows(
                         [b \in 1..Len(sentence) |-> cls.output],
                         [b \in 1..Len(sentence) |-> sentence[b].output]))
             IN  [raised |-> FALSE,
                  output |-> IF Len(input_word_ids[1]) > max_len
                             THEN take_last_axis(input_word_ids, max_len)
                             ELSE input_word_ids]

--------------------------------------------------------------------------
(* WordpieceTokenizer.tokenize step by step: the locals of one call *)

None == <<>>

\* no bert_encode call made
NoEncode == [pc |-> "idle", input_tensor |-> <<>>, raised |-> FALSE,
             input_word_ids |-> <<>>]

Some(x) == <<x>>

\* no equation generator called
NoEquation == [free_dims |-> 0, bound_dims |-> 0, output_dims |-> 0,
               proj |-> None, einsum |-> None]

\* no layer called
NoLayers == [attention_equation |-> None, tokenizer |-> None, softmax |-> None,
             attention |-> None, transformer |-> None, encoder |-> None,
             embedding |-> None, position |-> None, split |-> None,
             build_attention |-> None, self_attention_mask |-> None,
             label_encoder |-> None, encoding |-> None]

\* the locals of a call of WordpieceTokenizer.tokenize(text) at its first line;
\* i counts the tokens the for loop has taken, probed lists the (start, end)
\* pairs whose substr was looked up in the vocabulary for the current token
NewFrame(text) ==
    [pc |-> "for_token", text |-> text, tokens |-> whitespace_tokenize(text),
     i |-> 0, chars |-> <<>>, start |-> 0, end |-> 0, cur_substr |-> None,
     sub_tokens |-> <<>>, is_bad |-> FALSE, output_tokens |-> <<>>,
     probed |-> <<>>]

Threads == DOMAIN frame

\* only thread t's locals change: the vocabulary and the configuration are read
Step(t, f) ==
    /\ frame' = [frame EXCEPT ![t] = f]
    /\ UNCHANGED <<vocab, unk_token, max_input_chars_per_word, inv_vocab, loader,
                   max_sequence_length, encode, full, equation, layers>>

\* ForToken with the length test written >= instead of >
ForToken_LengthGE(t) ==
    LET f == frame[t] IN
    /\ f.pc = "for_token"
    /\ \/ /\ f.i < Len(f.tokens)
          /\ Len(f.tokens[f.i + 1]) >= max_input_chars_per_word
          /\ Step(t, [f EXCEPT !.i = @ + 1, !.chars = f.tokens[f.i + 1],
                               !.probed = <<>>,
                               !.output_tokens = Append(@, unk_token)])
       \/ /\ f.i < Len(f.tokens)
          /\ Len(f.tokens[f.i + 1]) < max_input_chars_per_word
          /\ Step(t, [f EXCEPT !.i = @ + 1, !.chars = f.tokens[f.i + 1],
                               !.probed = <<>>, !.is_bad = FALSE, !.start = 0,
                               !.sub_tokens = <<>>, !.pc = "while_start"])
       \/ /\ f.i = Len(f.tokens)
          /\ Step(t, [f EXCEPT !.pc = "return"])

\* for token in whitespace_tokenize(text): chars = list(token); the length test
ForToken(t) ==
    LET f == frame[t] IN
    /\ f.pc = "for_token"
    /\ \/ /\ f.i < Len(f.tokens)
          /\ Len(f.tokens[f.i + 1]) > max_input_chars_per_word
          /\ Step(t, [f EXCEPT !.i = @ + 1, !.chars = f.tokens[f.i + 1],
                               !.probed = <<>>,
                               !.output_tokens = Append(@, unk_token)])
       \/ /\ f.i < Len(f.tokens)
          /\ Len(f.tokens[f.i + 1]) <= max_input_chars_per_word
          /\ Step(t, [f EXCEPT !.i = @ + 1, !.chars = f.tokens[f.i + 1],
                               !.probed = <<>>, !.is_bad = FALSE, !.start = 0,
                               !.sub_tokens = <<>>, !.pc = "while_start"])
       \/ /\ f.i = Len(f.tokens)
          /\ Step(t, [f EXCEPT !.pc = "return"])

\* WhileStart with the first candidate one character short: end = len(chars) - 1
WhileStart_ShortEnd(t) ==
    LET f == frame[t] IN
    /\ f.pc = "while_start"
    /\ \/ /\ f.start < Len(f.chars)
          /\ Step(t, [f EXCEPT !.end = IF Len(f.chars) - 1 > f.start
                                       THEN Len(f.chars) - 1 ELSE Len(f.chars),
                               !.cur_substr = None, !.pc = "while_end"])
       \/ /\ ~(f.start < Len(f.chars))
          /\ Step(t, [f EXCEPT !.pc = "emit"])

\* while start < len(chars): end = len(chars); cur_substr = None
WhileStart(t) ==
    LET f == frame[t] IN
    /\ f.pc = "while_start"
    /\ \/ /\ f.start < Len(f.chars)
          /\ Step(t, [f EXCEPT !.end = Len(f.chars), !.cur_substr = None,
                               !.pc = "while_end"])
       \/ /\ ~(f.start < Len(f.chars))
          /\ Step(t, [f EXCEPT !.pc = "emit"])

\* WhileEnd that leaves end where it is after a failed lookup
WhileEnd_EndKept(t) ==
    LET f == frame[t]
        substr == Piece(f.chars, f.start, f.end)
    IN
    /\ f.pc = "while_end"
    /\ \/ /\ f.start < f.end
          /\ substr \in DOMAIN vocab
          /\ Step(t, [f EXCEPT !.cur_substr = Some(substr), !.pc = "if_none",
                               !.probed = Append(@, <<f.start, f.end>>)])
       \/ /\ f.start < f.end
          /\ substr \notin DOMAIN vocab
          /\ Step(t, f)
       \/ /\ ~(f.start < f.end)
          /\ Step(t, [f EXCEPT !.pc = "if_none"])

\* WhileEnd that remembers a failed lookup in the shared vocabulary:
\* self.vocab[substr] = len(self.vocab)
WhileEnd_Memoize(t) ==
    LET f == frame[t]
        substr == Piece(f.chars, f.start, f.end)
    IN
    /\ f.pc = "while_end"
    /\ \/ /\ f.start < f.end
          /\ substr \in DOMAIN vocab
          /\ Step(t, [f EXCEPT !.cur_substr = Some(substr), !.pc = "if_none",
                               !.probed = Append(@, <<f.start, f.end>>)])
       \/ /\ f.start < f.end
          /\ substr \notin DOMAIN vocab
          /\ frame' = [frame EXCEPT ![t] =
                 [f EXCEPT !.end = @ - 1,
                           !.probed = Append(@, <<f.start, f.end>>)]]
          /\ vocab' = SetItem(vocab, substr, Cardinality(DOMAIN vocab))
          /\ UNCHANGED <<unk_token, max_input_chars_per_word, inv_vocab, loader,
                         max_sequence_length, encode, full, equation, layers>>
       \/ /\ ~(f.start < f.end)
          /\ Step(t, [f EXCEPT !.pc = "if_none"])

\* while start < end: one lookup of substr in self.vocab
WhileEnd(t) ==
    LET f == frame[t]
        substr == Piece(f.chars, f.start, f.end)
    IN
    /\ f.pc = "while_end"
    /\ \/ /\ f.start < f.end
          /\ substr \in DOMAIN vocab
          /\ Step(t, [f EXCEPT !.cur_substr = Some(substr), !.pc = "if_none",
                               !.probed = Append(@, <<f.start, f.end>>)])
       \/ /\ f.start < f.end
          /\ substr \notin DOMAIN vocab
          /\ Step(t, [f EXCEPT !.end = @ - 1,
                               !.probed = Append(@, <<f.start, f.end>>)])
       \/ /\ ~(f.start < f.end)
          /\ Step(t, [f EXCEPT !.pc = "if_none"])

\* if cur_substr is None: is_bad, break; else sub_tokens.append, start = end
IfNone(t) ==
    LET f == frame[t] IN
    /\ f.pc = "if_none"
    /\ \/ /\ f.cur_substr = None
          /\ Step(t, [f EXCEPT !.is_bad = TRUE, !.pc = "emit"])
       \/ /\ f.cur_substr # None
          /\ Step(t, [f EXCEPT !.sub_tokens = Append(@, f.cur_substr[1]),
                               !.start = f.end, !.pc = "while_start"])

\* Emit that keeps the pieces found before the failure in front of unk_token
Emit_KeepPartial(t) ==
    LET f == frame[t] IN
    /\ f.pc = "emit"
    /\ \/ /\ f.is_bad
          /\ Step(t, [f EXCEPT !.output_tokens = Append(@ \o f.sub_tokens, unk_token),
                               !.pc = "for_token"])
       \/ /\ ~f.is_bad
          /\ Step(t, [f EXCEPT !.output_tokens = @ \o f.sub_tokens,
                               !.pc = "for_token"])

\* Emit that passes a token without a segmentation through as it is:
\* output_tokens.append(token)
Emit_AppendToken(t) ==
    LET f == frame[t] IN
    /\ f.pc = "emit"
    /\ \/ /\ f.is_bad
          /\ Step(t, [f EXCEPT !.output_tokens = Append(@, f.chars),
                               !.pc = "for_token"])
       \/ /\ ~f.is_bad
          /\ Step(t, [f EXCEPT !.output_tokens = @ \o f.sub_tokens,
                               !.pc = "for_token"])

\* if is_bad: output_tokens.append(unk_token) else output_tokens.extend(sub_tokens)
Emit(t) ==
    LET f == frame[t] IN
    /\ f.pc = "emit"
    /\ \/ /\ f.is_bad
          /\ Step(t, [f EXCEPT !.output_tokens = Append(@, unk_token),
                               !.pc = "for_token"])
       \/ /\ ~f.is_bad
          /\ Step(t, [f EXCEPT !.output_tokens = @ \o f.sub_tokens,
                               !.pc = "for_token"])

--------------------------------------------------------------------------
(* One call of WordpieceTokenizer.tokenize over every text of the bounds *)

MaxTextLen == 5

SmallMaxInputChars == 2

WpAlphabet == {"a", "b", "#", " "}

Unaffable == <<"u", "n", "a", "f", "f", "a", "b", "l", "e">>

\* vocabulary files, one token per line
UnaffableVocab ==
    <<<<"u", "n">>, <<"#", "#", "a", "f", "f">>, <<"#", "#", "a", "b", "l", "e">> >>

WpVocabFiles ==
    { UnaffableVocab,
      <<UNK>> \o UnaffableVocab \o <<<<"u">>, <<"#", "#", "a">> >>,
      <<UNK, <<"a">>, <<"b">>, <<"a", "b">>, <<"#", "#", "a">>,
        <<"#", "#", "b">>, <<"#", "#", "a", "b">> >>,
      <<<<"a">>, <<"b">>, <<"a", "b">>, <<"#", "#", "b", "b">> >>,
      <<<<"a">>, <<"#">>, <<"#", "#">>, <<"#", "#", "#">>, <<"#", "#", "a">> >>,
      <<UNK>> }

\* "b aba a": a token that fails after a first piece, between two tokens
BetweenText == <<"b", " ", "a", "b", "a", " ", "a">>

WpTexts == SeqsUpTo(WpAlphabet, MaxTextLen) \cup {Unaffable, BetweenText}

\* the reader after load_vocab(lines) has returned
Loaded(lines) ==
    [pc |-> "ready", file |-> lines, read |-> Len(lines), index |-> Len(lines)]

InitWordpiece ==
    /\ loader \in { Loaded(lines) : lines \in WpVocabFiles }
    /\ vocab = load_vocab(loader.file)
    /\ inv_vocab = Inverse(vocab)
    /\ unk_token = UNK
    /\ max_input_chars_per_word \in {SmallMaxInputChars, DefaultMaxInputChars}
    /\ frame \in { [t \in {1} |-> NewFrame(text)] : text \in WpTexts }
    /\ max_sequence_length = 0
    /\ encode = NoEncode
    /\ full = <<>>
    /\ equation = NoEquation
    /\ layers = NoLayers

NextWordpiece ==
    \/ \E t \in Threads : ForToken(t)
    \/ \E t \in Threads : WhileStart(t)
    \/ \E t \in Threads : WhileEnd(t)
    \/ \E t \in Threads : IfNone(t)
    \/ \E t \in Threads : Emit(t)

SpecWordpiece == InitWordpiece /\ [][NextWordpiece]_vars

\* the step machine returns what the function computes
WpAgrees ==
    \A t \in Threads :
        frame[t].pc = "return" =>
            frame[t].output_tokens =
                WordpieceTokenizer_tokenize(vocab, unk_token,
                                            max_input_chars_per_word, frame[t].text)

--------------------------------------------------------------------------
(* load_vocab and FullTokenizer.__init__ step by step *)

\* while True: token = reader.readline(); if not token: break;
\* token = token.strip(); vocab[token] = index; index += 1
ReadLine ==
    /\ loader.pc = "open"
    /\ \/ /\ loader.read < Len(loader.file)
          /\ vocab' = SetItem(vocab, strip(loader.file[loader.read + 1]), loader.index)
          /\ loader' = [loader EXCEPT !.read = @ + 1, !.index = @ + 1]
       \/ /\ loader.read = Len(loader.file)
          /\ loader' = [loader EXCEPT !.pc = "closed"]
          /\ UNCHANGED vocab
    /\ UNCHANGED <<unk_token, max_input_chars_per_word, frame, inv_vocab,
                   max_sequence_length, encode, full, equation, layers>>

\* FullTokenizer.__init__ after load_vocab has returned: inv_vocab, the
\* BasicTokenizer and the WordpieceTokenizer with its defaults
Construct ==
    /\ loader.pc = "closed"
    /\ inv_vocab' = Inverse(vocab)
    /\ unk_token' = UNK
    /\ max_input_chars_per_word' = DefaultMaxInputChars
    /\ loader' = [loader EXCEPT !.pc = "ready"]
    /\ UNCHANGED <<vocab, frame, max_sequence_length, encode, full, equation, layers>>

\* load_vocab(lines) at its first line: an empty OrderedDict, index = 0
Opened(lines) == [pc |-> "open", file |-> lines, read |-> 0, index |-> 0]

MaxVocabLines == 4

\* "a", "b", "a " (trailing whitespace) and a blank line
VocabLines == { <<"a">>, <<"b">>, <<"a", " ">>, <<>> }

InitVocab ==
    /\ loader \in { Opened(lines) : lines \in SeqsUpTo(VocabLines, MaxVocabLines) }
    /\ vocab = <<>>
    /\ inv_vocab = <<>>
    /\ unk_token = UNK
    /\ max_input_chars_per_word = DefaultMaxInputChars
    /\ frame = <<>>
    /\ max_sequence_length = 0
    /\ encode = NoEncode
    /\ full = <<>>
    /\ equation = NoEquation
    /\ layers = NoLayers

NextVocab == ReadLine \/ Construct

SpecVocab == InitVocab /\ [][NextVocab]_vars

\* the step machine builds what the function computes
LoadAgrees ==
    loader.pc \in {"closed", "ready"} => vocab = load_vocab(loader.file)

\* the sub-word strings of the lines read so far
Tokens(lines) == [k \in 1..Len(lines) |-> strip(lines[k])]

\* the 0-based positions of token among the tokens
Positions(tokens, token) == { k - 1 : k \in { j \in 1..Len(tokens) : tokens[j] = token } }

Min(S) == CHOOSE x \in S : \A y \in S : x <= y

Max(S) == CHOOSE x \in S : \A y \in S : y <= x

NoRepeat(tokens) == \A j, k \in 1..Len(tokens) : tokens[j] = tokens[k] => j = k

Ids(d) == { d[k] : k \in DOMAIN d }

\* C5 as stated: every sub-word string is mapped to the position of its first
\* occurrence and the ids are 0 .. n-1, for every file, repeated lines included.
C5_FirstOccurrenceDense ==
    loader.pc \in {"closed", "ready"} =>
        LET tokens == Tokens(loader.file) IN
        /\ DOMAIN vocab = { tokens[k] : k \in 1..Len(tokens) }
        /\ \A tok \in DOMAIN vocab : vocab[tok] = Min(Positions(tokens, tok))
        /\ Ids(vocab) = 0..(Cardinality(DOMAIN vocab) - 1)

\* C5 amended: load_vocab maps every sub-word string (a line, stripped) to the
\* 0-based position of its last occurrence; no two strings share an id; when
\* no stripped line repeats, that position is also the first occurrence and
\* the ids are exactly 0 .. n-1.
C5_LastOccurrence ==
    LET tokens == Tokens(SubSeq(loader.file, 1, loader.read)) IN
    /\ loader.index = loader.read
    /\ DOMAIN vocab = { tokens[k] : k \in 1..Len(tokens) }
    /\ \A tok \in DOMAIN vocab : vocab[tok] = Max(Positions(tokens, tok))
    /\ \A t1, t2 \in DOMAIN vocab : vocab[t1] = vocab[t2] => t1 = t2
    /\ NoRepeat(tokens) =>
          /\ \A tok \in DOMAIN vocab : vocab[tok] = Min(Positions(tokens, tok))
          /\ Ids(vocab) = 0..(Len(tokens) - 1)

\* a file whose first line comes again later: its token has the later id, and
\* id 0 is nobody's
C5_Witness ==
    /\ loader.pc = "ready"
    /\ Len(loader.file) >= 3
    /\ strip(loader.file[1]) = strip(loader.file[3])
    /\ vocab[strip(loader.file[1])] >= 2
    /\ 0 \notin Ids(vocab)

--------------------------------------------------------------------------
(* BertTokenizer: construction from a vocabulary file, then one bert_encode *)

\* BertEncoder.call's first_token_tensor, tf.squeeze(x[:, 0:1, :], axis=1):
\* of every row, what stands at position 0
first_token_tensor(x) == [b \in 1..Len(x) |-> x[b][1]]

MaxSentenceLen == 2

MaxBatch == 2

MaxSeqLen == 4

EncAlphabet == {"a", "#"}

\* vocabulary files: complete, without [UNK], without [SEP], without [CLS]
EncVocabFiles ==
    { <<PAD, UNK, CLS, SEP, <<"a">>, <<"#">>, <<"#", "#", "a">> >>,
      <<PAD, CLS, SEP, <<"a">>, <<"#">> >>,
      <<PAD, UNK, CLS, <<"a">> >>,
      <<PAD, UNK, SEP, <<"a">> >> }

Batches ==
    SeqsUpTo(SeqsUpTo(EncAlphabet, MaxSentenceLen), MaxBatch) \ {<<>>}

\* BertTokenizer.bert_encode(input_tensor), a batch of at least one sentence
BertEncode ==
    /\ loader.pc = "ready"
    /\ encode.pc = "idle"
    /\ \E input_tensor \in Batches :
          LET r == bert_encode(vocab, max_sequence_length, input_tensor)
          IN  encode' = [pc |-> "returned", input_tensor |-> input_tensor,
                         raised |-> r.raised, input_word_ids |-> r.output]
    /\ UNCHANGED <<vocab, unk_token, max_input_chars_per_word, frame, inv_vocab,
                   loader, max_sequence_length, full, equation, layers>>

InitEncode ==
    /\ loader \in { Opened(lines) : lines \in EncVocabFiles }
    /\ vocab = <<>>
    /\ inv_vocab = <<>>
    /\ unk_token = UNK
    /\ max_input_chars_per_word = DefaultMaxInputChars
    /\ frame = <<>>
    /\ max_sequence_length \in 0..MaxSeqLen
    /\ encode = NoEncode
    /\ full = <<>>
    /\ equation = NoEquation
    /\ layers = NoLayers

NextEncode == ReadLine \/ Construct \/ BertEncode

SpecEncode == InitEncode /\ [][NextEncode]_vars

\* the sentence of row b and the row bert_encode returned for it
Sentence(b) == encode.input_tensor[b]

Row(b) == encode.input_word_ids[b]

Rows == 1..Len(encode.input_tensor)

Encoded == encode.pc = "returned" /\ ~encode.raised

\* the ids of the sub-words of sentence s
SubwordIds(s) ==
    LET tokens == FullTokenizer_tokenize(vocab, s)
    IN  [k \in 1..Len(tokens) |-> vocab[tokens[k]]]

\* [class-token id] ++ ids of the sub-words ++ [separator-token id]
Framed(s) == <<vocab[CLS]>> \o SubwordIds(s) \o <<vocab[SEP]>>

\* the first n elements of seq, all of it when it has fewer
Take(seq, n) == SubSeq(seq, 1, IF n < Len(seq) THEN n ELSE Len(seq))

Zeros(n) == [k \in 1..n |-> 0]

\* the length of the longest framed sentence of the batch
Width == Max({ Len(Framed(Sentence(b))) : b \in Rows })

\* C3 as stated: every row is the first max_sequence_length elements of
\* [class id] ++ sub-word ids ++ [separator id], and holds exactly
\* max_sequence_length ids when the sub-word count plus 2 exceeds it.
C3_RowIsTruncatedFrame ==
    Encoded =>
        \A b \in Rows :
            /\ Row(b) = Take(Framed(Sentence(b)), max_sequence_length)
            /\ Len(SubwordIds(Sentence(b))) + 2 > max_sequence_length
                   => Len(Row(b)) = max_sequence_length

\* C3 amended: every row is the first max_sequence_length elements of
\* [class id] ++ sub-word ids ++ [separator id] ++ zeros, the zeros filling the
\* row up to the longest row of the batch (truncation keeps the front and
\* drops the tail); when the sub-word count plus 2 exceeds
\* max_sequence_length the row holds exactly max_sequence_length ids.
C3_RowIsTruncatedPaddedFrame ==
    Encoded =>
        \A b \in Rows :
            LET framed == Framed(Sentence(b)) IN
            /\ Row(b) = Take(framed \o Zeros(Width - Len(framed)), max_sequence_length)
            /\ Len(SubwordIds(Sentence(b))) + 2 > max_sequence_length
                   => Len(Row(b)) = max_sequence_length

\* a batch with a row cut at max_sequence_length and a shorter row that ends
\* in a zero after its separator id
C3_Witness ==
    /\ Encoded
    /\ \E b, c \in Rows :
          /\ Len(Framed(Sentence(b))) > max_sequence_length
          /\ Len(Row(b)) = max_sequence_length
          /\ Len(Framed(Sentence(c))) < max_sequence_length
          /\ Row(c)[Len(Framed(Sentence(c)))] = vocab[SEP]
          /\ Row(c)[max_sequence_length] = 0

\* C4: for max_sequence_length >= 1, position 0 of every row bert_encode
\* returns holds the class-token id: what BertEncoder.call takes at position 0
\* is the class position of every row.
C4_ClassTokenFirst ==
    (Encoded /\ max_sequence_length >= 1) =>
        /\ \A b \in Rows : Len(Row(b)) >= 1
        /\ first_token_tensor(encode.input_word_ids) = [b \in Rows |-> vocab[CLS]]

\* rows cut down to one id and rows cut in the middle of their sub-words
C4_Witness ==
    /\ Encoded
    /\ max_sequence_length >= 1
    /\ Len(encode.input_tensor) = 2
    /\ \E b \in Rows : Len(Framed(Sentence(b))) > max_sequence_length
    /\ \A b \in Rows : Row(b)[1] = vocab[CLS]
    /\ vocab[CLS] # 0

\* the tokens convert_by_vocab is asked for while the batch is encoded
Asked ==
    {CLS, SEP} \cup
    UNION { LET tokens == FullTokenizer_tokenize(vocab, Sentence(b))
            IN  { tokens[k] : k \in 1..Len(tokens) } : b \in Rows }

\* C6 as stated: construction over a vocabulary that lacks [UNK], [CLS] or
\* [SEP] fails, so a constructed tokenizer has all three.
C6_ConstructionFails ==
    loader.pc = "ready" => {UNK, CLS, SEP} \subseteq DOMAIN vocab

\* C6 amended: construction succeeds whatever the vocabulary holds; a missing
\* special token surfaces later, as the KeyError of convert_by_vocab, when a
\* batch is encoded: bert_encode raises exactly when [CLS], [SEP] or a token of
\* the batch (the placeholder [UNK] of a token without a match included) is no
\* entry of the vocabulary.
C6_FailsAtConversion ==
    /\ loader.pc \in {"closed", "ready"} => vocab = load_vocab(loader.file)
    /\ encode.pc = "returned" =>
          /\ loader.pc = "ready"
          /\ encode.raised <=> ~(Asked \subseteq DOMAIN vocab)

\* a tokenizer built without [UNK]: bert_encode raises on a batch that holds a
\* token without a match
C6_Witness ==
    /\ loader.pc = "ready"
    /\ UNK \notin DOMAIN vocab
    /\ {CLS, SEP} \subseteq DOMAIN vocab
    /\ encode.pc = "returned"
    /\ encode.raised
    /\ UNK \in Asked

--------------------------------------------------------------------------
(* Greedy longest-match segmentation, stated without the loops *)

\* chars[start:end], with "##" in front when start > 0
Candidate(chars, start, end) ==
    (IF start > 0 THEN <<"#", "#">> ELSE <<>>) \o SubSeq(chars, start + 1, end)

\* the ends, after start, whose candidate is in the vocabulary
MatchEnds(chars, start) ==
    { e \in (start + 1)..Len(chars) : Candidate(chars, start, e) \in DOMAIN vocab }

RECURSIVE GreedyPieces(_, _)
\* the longest candidates from start on, until the end or a position without one
GreedyPieces(chars, start) ==
    IF start >= Len(chars) \/ MatchEnds(chars, start) = {} THEN <<>>
    ELSE LET e == Max(MatchEnds(chars, start))
         IN  <<Candidate(chars, start, e)>> \o GreedyPieces(chars, e)

RECURSIVE GreedyStop(_, _)
\* where that segmentation stops: Len(chars), or a position without a candidate
GreedyStop(chars, start) ==
    IF start >= Len(chars) \/ MatchEnds(chars, start) = {} THEN start
    ELSE GreedyStop(chars, Max(MatchEnds(chars, start)))

Stuck(chars) == GreedyStop(chars, 0) < Len(chars)

Segmented(chars) == IF Stuck(chars) THEN <<unk_token>> ELSE GreedyPieces(chars, 0)

RECURSIVE Expected(_)
\* the output the tokens call for, token by token
Expected(tokens) ==
    IF tokens = <<>> THEN <<>>
    ELSE (IF Len(Head(tokens)) > max_input_chars_per_word
          THEN <<unk_token>> ELSE Segmented(Head(tokens)))
         \o Expected(Tail(tokens))

\* the last n entries of a sequence
LastN(seq, n) == SubSeq(seq, Len(seq) - n + 1, Len(seq))

\* C1: for a token within max_input_chars_per_word, at every start position the
\* piece found is chars[start:end] ("##" in front when start > 0) for the
\* largest end whose candidate is in the vocabulary, found by trying the ends
\* from len(chars) downwards; a token segmented to its end is emitted as the
\* chain of these longest pieces from position 0, each starting where the one
\* before ended; "unaffable" with un, ##aff, ##able gives [un, ##aff, ##able].
C1_GreedyLongestMatch ==
    \A t \in Threads :
        LET f == frame[t]
            n == Len(f.chars)
        IN  /\ (f.pc = "if_none" /\ f.cur_substr # None) =>
                /\ f.cur_substr[1] = Candidate(f.chars, f.start, f.end)
                /\ f.cur_substr[1] \in DOMAIN vocab
                /\ f.end \in MatchEnds(f.chars, f.start)
                /\ \A e \in MatchEnds(f.chars, f.start) : e <= f.end
                /\ Len(f.probed) >= n - f.end + 1
                /\ LastN(f.probed, n - f.end + 1)
                       = [k \in 1..(n - f.end + 1) |-> <<f.start, n - k + 1>>]
            /\ (f.pc = "emit" /\ ~f.is_bad) =>
                /\ f.start = n
                /\ f.sub_tokens = GreedyPieces(f.chars, 0)
            /\ (f.pc = "emit" /\ f.chars = Unaffable
                    /\ \A k \in 1..3 : UnaffableVocab[k] \in DOMAIN vocab) =>
                f.sub_tokens = UnaffableVocab

\* "unaffable" segmented, in a vocabulary that also holds the shorter "##a"
C1_Witness ==
    \E t \in Threads :
        /\ frame[t].pc = "emit"
        /\ frame[t].chars = Unaffable
        /\ frame[t].sub_tokens = UnaffableVocab
        /\ <<"#", "#", "a">> \in DOMAIN vocab

\* C2: a token with a start position where no candidate is in the vocabulary
\* contributes exactly one unk_token to the output, none of the pieces found
\* before that position, and the tokens before and after it contribute what
\* they contribute alone.
C2_UnknownReplacesToken ==
    \A t \in Threads :
        LET f == frame[t] IN
        /\ f.pc \in {"for_token", "return"} =>
               f.output_tokens = Expected(SubSeq(f.tokens, 1, f.i))
        /\ f.pc \in {"while_start", "while_end", "if_none", "emit"} =>
               f.output_tokens = Expected(SubSeq(f.tokens, 1, f.i - 1))
        /\ (f.pc = "emit" /\ f.is_bad) =>
               /\ Stuck(f.chars)
               /\ MatchEnds(f.chars, f.start) = {}
               /\ f.sub_tokens = GreedyPieces(f.chars, 0)

\* "b aba a" with ab but not ##a in the vocabulary: [b, unk, a]
C2_Witness ==
    \E t \in Threads :
        LET f == frame[t] IN
        /\ f.pc = "return"
        /\ Len(f.tokens) = 3
        /\ Len(f.tokens[2]) <= max_input_chars_per_word
        /\ Stuck(f.tokens[2])
        /\ GreedyPieces(f.tokens[2], 0) # <<>>
        /\ ~Stuck(f.tokens[1]) /\ ~Stuck(f.tokens[3])
        /\ f.output_tokens = GreedyPieces(f.tokens[1], 0) \o <<unk_token>>
                                 \o GreedyPieces(f.tokens[3], 0)

\* C8: a token longer than max_input_chars_per_word yields exactly unk_token
\* with no vocabulary lookup; a token of exactly that length goes through the
\* lookups and yields its segmentation.
C8_OverLengthToken ==
    \A t \in Threads :
        LET f == frame[t]
            before == Expected(SubSeq(f.tokens, 1, f.i - 1))
        IN  (f.i > 0) =>
            /\ Len(f.chars) > max_input_chars_per_word =>
                /\ f.pc \in {"for_token", "return"}
                /\ f.probed = <<>>
                /\ f.output_tokens = Append(before, unk_token)
            /\ (Len(f.chars) = max_input_chars_per_word
                    /\ f.pc \in {"for_token", "return"}) =>
                /\ f.probed # <<>>
                /\ f.probed[1] = <<0, Len(f.chars)>>
                /\ f.output_tokens = before \o Segmented(f.chars)

\* a token of the vocabulary, one character too long: unk_token, no lookup
C8_Witness ==
    \E t \in Threads :
        LET f == frame[t] IN
        /\ f.i > 0
        /\ Len(f.chars) = max_input_chars_per_word + 1
        /\ f.chars \in DOMAIN vocab
        /\ f.probed = <<>>
        /\ f.output_tokens = <<unk_token>>

\* a token of exactly the maximum length, segmented into two pieces
C8_AtMaximum ==
    \E t \in Threads :
        LET f == frame[t] IN
        /\ f.pc = "return"
        /\ Len(f.chars) = max_input_chars_per_word
        /\ Len(f.output_tokens) = 2
        /\ f.output_tokens = GreedyPieces(f.chars, 0)

--------------------------------------------------------------------------
(* FullTokenizer.tokenize and convert_tokens_to_ids step by step *)

\* the locals of thread t at the first line of FullTokenizer.tokenize(text):
\* split_tokens = [], the basic tokenizer's tokens to loop over; j counts the
\* tokens taken, items / k / output are convert_by_vocab's
NewFull(text) ==
    [pc |-> "for_token", text |-> text,
     basic_tokens |-> BasicTokenizer_tokenize(text, TRUE, TRUE), j |-> 0,
     split_tokens |-> <<>>, items |-> <<>>, k |-> 0, output |-> <<>>]

\* for token in self.basic_tokenizer.tokenize(text): the call of
\* self.wordpiece_tokenizer.tokenize(token), or return split_tokens
FullForToken(t) ==
    LET c == full[t] IN
    /\ c.pc = "for_token"
    /\ \/ /\ c.j < Len(c.basic_tokens)
          /\ full' = [full EXCEPT ![t] = [c EXCEPT !.j = @ + 1, !.pc = "wordpiece"]]
          /\ frame' = [u \in DOMAIN frame \cup {t} |->
                          IF u = t THEN NewFrame(c.basic_tokens[c.j + 1])
                          ELSE frame[u]]
       \/ /\ c.j = Len(c.basic_tokens)
          /\ full' = [full EXCEPT ![t] = [c EXCEPT !.pc = "return"]]
          /\ UNCHANGED frame
    /\ UNCHANGED <<vocab, unk_token, max_input_chars_per_word, inv_vocab, loader,
                   max_sequence_length, encode, equation, layers>>

\* for sub_token in <what the wordpiece call returned>: split_tokens.append
FullExtend(t) ==
    LET c == full[t] IN
    /\ c.pc = "wordpiece"
    /\ t \in DOMAIN frame
    /\ frame[t].pc = "return"
    /\ full' = [full EXCEPT ![t] =
           [c EXCEPT !.split_tokens = @ \o frame[t].output_tokens,
                     !.pc = "for_token"]]
    /\ UNCHANGED <<vocab, unk_token, max_input_chars_per_word, frame, inv_vocab,
                   loader, max_sequence_length, encode, equation, layers>>

\* the caller hands the tokens to convert_tokens_to_ids: convert_by_vocab's
\* output = []
ConvertTokensToIds(t) ==
    LET c == full[t] IN
    /\ c.pc = "return"
    /\ full' = [full EXCEPT ![t] =
           [c EXCEPT !.items = c.split_tokens, !.k = 0, !.output = <<>>,
                     !.pc = "convert"]]
    /\ UNCHANGED <<vocab, unk_token, max_input_chars_per_word, frame, inv_vocab,
                   loader, max_sequence_length, encode, equation, layers>>

\* for item in items: output.append(vocab[item]), KeyError when item is no key
ConvertByVocab(t) ==
    LET c == full[t] IN
    /\ c.pc = "convert"
    /\ \/ /\ c.k < Len(c.items)
          /\ c.items[c.k + 1] \in DOMAIN vocab
          /\ full' = [full EXCEPT ![t] =
                 [c EXCEPT !.output = Append(@, vocab[c.items[c.k + 1]]),
                           !.k = @ + 1]]
       \/ /\ c.k < Len(c.items)
          /\ c.items[c.k + 1] \notin DOMAIN vocab
          /\ full' = [full EXCEPT ![t] = [c EXCEPT !.pc = "raised"]]
       \/ /\ c.k = Len(c.items)
          /\ full' = [full EXCEPT ![t] = [c EXCEPT !.pc = "converted"]]
    /\ UNCHANGED <<vocab, unk_token, max_input_chars_per_word, frame, inv_vocab,
                   loader, max_sequence_length, encode, equation, layers>>

\* the steps of the wordpiece call a FullTokenizer.tokenize call is in
WordpieceStep ==
    \/ \E t \in Threads : ForToken(t)
    \/ \E t \in Threads : WhileStart(t)
    \/ \E t \in Threads : WhileEnd(t)
    \/ \E t \in Threads : IfNone(t)
    \/ \E t \in Threads : Emit(t)

--------------------------------------------------------------------------
(* One call of FullTokenizer.tokenize over every text of the bounds *)

MaxFullLen == 3

FullAlphabet == {"a", "b", "A", " ", ".", "U+00E9", "U+4E2D"}

\* a token of max_input_chars_per_word + 1 characters, all in the vocabulary
LongToken == [k \in 1..(DefaultMaxInputChars + 1) |-> "a"]

\* "Aé", the long token, "." : a token without a segmentation, an over-length
\* token and a token of the vocabulary
MixedText == <<"A", "U+00E9", " ">> \o LongToken \o <<".">>

FullTexts == SeqsUpTo(FullAlphabet, MaxFullLen) \cup {LongToken, MixedText}

FullVocabFiles ==
    { <<UNK, <<"a">>, <<"#", "#", "a">>, <<"b">>, <<".">> >>,
      << <<"a">>, <<"#", "#", "b">> >>,
      <<UNK>>,
      <<UNK, <<"a">>, <<"e">>, <<"#", "#", "e">>, <<"U+4E2D">>, <<"a", "b">> >> }

InitFull ==
    /\ loader \in { Loaded(lines) : lines \in FullVocabFiles }
    /\ vocab = load_vocab(loader.file)
    /\ inv_vocab = Inverse(vocab)
    /\ unk_token = UNK
    /\ max_input_chars_per_word = DefaultMaxInputChars
    /\ frame = <<>>
    /\ max_sequence_length = 0
    /\ encode = NoEncode
    /\ full \in { [t \in {1} |-> NewFull(text)] : text \in FullTexts }
    /\ equation = NoEquation
    /\ layers = NoLayers

NextFull ==
    \/ \E t \in DOMAIN full : FullForToken(t)
    \/ \E t \in DOMAIN full : FullExtend(t)
    \/ WordpieceStep

SpecFull == InitFull /\ [][NextFull]_vars

\* the step machine returns what the function computes
FullAgrees ==
    \A t \in DOMAIN full :
        full[t].pc = "return" =>
            full[t].split_tokens = FullTokenizer_tokenize(vocab, full[t].text)

--------------------------------------------------------------------------
(* Concurrent calls on one shared FullTokenizer *)

MaxThreads == 2

ConcTexts == { <<"a">>, <<"a", "b">>, <<"b", " ", "a">> }

ConcVocabFiles ==
    { <<UNK, <<"a">>, <<"#", "#", "b">> >>,
      << <<"a">>, <<"b">> >> }

InitConcurrent ==
    /\ loader \in { Loaded(lines) : lines \in ConcVocabFiles }
    /\ vocab = load_vocab(loader.file)
    /\ inv_vocab = Inverse(vocab)
    /\ unk_token = UNK
    /\ max_input_chars_per_word = DefaultMaxInputChars
    /\ frame = <<>>
    /\ max_sequence_length = 0
    /\ encode = NoEncode
    /\ full \in { [t \in 1..MaxThreads |-> NewFull(texts[t])] :
                      texts \in [1..MaxThreads -> ConcTexts] }
    /\ equation = NoEquation
    /\ layers = NoLayers

NextConcurrent ==
    \/ \E t \in DOMAIN full : FullForToken(t)
    \/ \E t \in DOMAIN full : FullExtend(t)
    \/ \E t \in DOMAIN full : ConvertTokensToIds(t)
    \/ \E t \in DOMAIN full : ConvertByVocab(t)
    \/ WordpieceStep

SpecConcurrent == InitConcurrent /\ [][NextConcurrent]_vars

--------------------------------------------------------------------------
(* The einsum equation generators *)

\* string.ascii_lowercase
ascii_lowercase ==
    <<"a", "b", "c", "d", "e", "f", "g", "h", "i", "j", "k", "l", "m",
      "n", "o", "p", "q", "r", "s", "t", "u", "v", "w", "x", "y", "z">>

\* _CHR_IDX of DenseEinsum._build_einsum_string
DenseEinsum_CHR_IDX ==
    <<"a", "b", "c", "d", "e", "f", "g", "h", "i", "j", "k", "l", "m">>

\* for i in range(n): char = _CHR_IDX[i + letter_offset] raises IndexError
\* when an index is past the end of _CHR_IDX
IndexError(_CHR_IDX, letter_offset, n) ==
    \E i \in 0..(n - 1) : i + letter_offset >= Len(_CHR_IDX)

\* the chars that loop reads, in order
range_chars(_CHR_IDX, letter_offset, n) ==
    [k \in 1..n |-> _CHR_IDX[(k - 1) + letter_offset + 1]]

\* "%s,%s->%s" % (input_str, kernel_str, output_str)
format_equation(input_str, kernel_str, output_str) ==
    input_str \o <<",">> \o kernel_str \o <<"-", ">">> \o output_str

\* letter_offset left where it was after the bound loop: the output block
\* takes its letters from the start of the bound block
_build_proj_equation_NoOffset(free_dims, bound_dims, output_dims) ==
    LET _CHR_IDX == ascii_lowercase IN
    IF \/ IndexError(_CHR_IDX, 0, free_dims)
       \/ IndexError(_CHR_IDX, free_dims, bound_dims)
       \/ IndexError(_CHR_IDX, free_dims, output_dims)
    THEN [raised |-> TRUE, equation |-> <<>>, bias_axes |-> <<>>, rank |-> 0]
    ELSE LET free == range_chars(_CHR_IDX, 0, free_dims)
             bound == range_chars(_CHR_IDX, free_dims, bound_dims)
             output == range_chars(_CHR_IDX, free_dims, output_dims)
         IN  [raised |-> FALSE,
              equation |-> format_equation(free \o bound, bound \o output,
                                           free \o output),
              bias_axes |-> output,
              rank |-> Len(free \o output)]

\* (equation, bias_axes, len(output_str)), or raised (IndexError)
_build_proj_equation(free_dims, bound_dims, output_dims) ==
    LET _CHR_IDX == ascii_lowercase IN
    IF \/ IndexError(_CHR_IDX, 0, free_dims)
       \/ IndexError(_CHR_IDX, free_dims, bound_dims)
       \/ IndexError(_CHR_IDX, free_dims + bound_dims, output_dims)
    THEN [raised |-> TRUE, equation |-> <<>>, bias_axes |-> <<>>, rank |-> 0]
    ELSE LET free == range_chars(_CHR_IDX, 0, free_dims)
             bound == range_chars(_CHR_IDX, free_dims, bound_dims)
             output == range_chars(_CHR_IDX, free_dims + bound_dims, output_dims)
             input_str == free \o bound
             kernel_str == bound \o output
             output_str == free \o output
         IN  [raised |-> FALSE,
              equation |-> format_equation(input_str, kernel_str, output_str),
              bias_axes |-> output,
              rank |-> Len(output_str)]

\* _build_einsum_string over the 26 letters of _build_proj_equation
_build_einsum_string_Lowercase(free_input_dims, bound_dims, output_dims) ==
    LET r == _build_proj_equation(free_input_dims, bound_dims, output_dims)
    IN  [raised |-> r.raised, equation |-> r.equation]

\* DenseEinsum._build_einsum_string: the equation, or raised (IndexError)
_build_einsum_string(free_input_dims, bound_dims, output_dims) ==
    LET _CHR_IDX == DenseEinsum_CHR_IDX IN
    IF \/ IndexError(_CHR_IDX, 0, free_input_dims)
       \/ IndexError(_CHR_IDX, free_input_dims, bound_dims)
       \/ IndexError(_CHR_IDX, free_input_dims + bound_dims, output_dims)
    THEN [raised |-> TRUE, equation |-> <<>>]
    ELSE LET free == range_chars(_CHR_IDX, 0, free_input_dims)
             bound == range_chars(_CHR_IDX, free_input_dims, bound_dims)
             output == range_chars(_CHR_IDX, free_input_dims + bound_dims,
                                   output_dims)
             input_str == free \o bound
             kernel_str == bound \o output
             output_str == free \o output
         IN  [raised |-> FALSE,
              equation |-> format_equation(input_str, kernel_str, output_str)]

\* a call of _build_proj_equation with the dims of the state
BuildProjEquation ==
    /\ equation.proj = None
    /\ equation' = [equation EXCEPT !.proj =
           Some(_build_proj_equation(equation.free_dims, equation.bound_dims,
                                     equation.output_dims))]
    /\ UNCHANGED <<vocab, unk_token, max_input_chars_per_word, frame, inv_vocab,
                   loader, max_sequence_length, encode, full, layers>>

\* a call of DenseEinsum._build_einsum_string with the dims of the state
BuildEinsumString ==
    /\ equation.einsum = None
    /\ equation' = [equation EXCEPT !.einsum =
           Some(_build_einsum_string(equation.free_dims, equation.bound_dims,
                                     equation.output_dims))]
    /\ UNCHANGED <<vocab, unk_token, max_input_chars_per_word, frame, inv_vocab,
                   loader, max_sequence_length, encode, full, layers>>

MaxDims == 9

InitEquation ==
    /\ loader = Opened(<<>>)
    /\ vocab = <<>>
    /\ inv_vocab = <<>>
    /\ unk_token = UNK
    /\ max_input_chars_per_word = DefaultMaxInputChars
    /\ frame = <<>>
    /\ max_sequence_length = 0
    /\ encode = NoEncode
    /\ full = <<>>
    /\ equation \in { [NoEquation EXCEPT !.free_dims = f, !.bound_dims = b,
                                         !.output_dims = o] :
                          f \in 0..MaxDims, b \in 0..MaxDims, o \in 0..MaxDims }
    /\ layers = NoLayers

NextEquation == BuildProjEquation \/ BuildEinsumString

SpecEquation == InitEquation /\ [][NextEquation]_vars

\* the three subscript strings of an equation "input,kernel->output"
CommaAt(eq) == Min({ k \in 1..Len(eq) : eq[k] = "," })

ArrowAt(eq) == Min({ k \in 1..(Len(eq) - 1) : eq[k] = "-" /\ eq[k + 1] = ">" })

InputSubscripts(eq) == SubSeq(eq, 1, CommaAt(eq) - 1)

KernelSubscripts(eq) == SubSeq(eq, CommaAt(eq) + 1, ArrowAt(eq) - 1)

OutputSubscripts(eq) == SubSeq(eq, ArrowAt(eq) + 2, Len(eq))

\* the n letters of the alphabet after the first `from`
Block(alphabet, from, n) == [k \in 1..n |-> alphabet[from + k]]

\* the place of a letter in a .. z
AlphabetIndex(char) ==
    CHOOSE k \in 1..Len(ascii_lowercase) : ascii_lowercase[k] = char

\* the dims of the state fit an alphabet
Fits(alphabet) ==
    equation.free_dims + equation.bound_dims + equation.output_dims
        <= Len(alphabet)

\* what C10 says of one returned equation
SubscriptsInOrder(r, alphabet) ==
    LET f == equation.free_dims
        b == equation.bound_dims
        o == equation.output_dims
        input == InputSubscripts(r.equation)
        kernel == KernelSubscripts(r.equation)
        output == OutputSubscripts(r.equation)
        symbols == input \o SubSeq(kernel, b + 1, Len(kernel))
    IN  /\ ~r.raised
        /\ Cardinality({ k \in 1..Len(r.equation) : r.equation[k] = "," }) = 1
        /\ input = Block(alphabet, 0, f) \o Block(alphabet, f, b)
        /\ kernel = Block(alphabet, f, b) \o Block(alphabet, f + b, o)
        /\ output = Block(alphabet, 0, f) \o Block(alphabet, f + b, o)
        /\ Len(symbols) = f + b + o
        /\ \A j, k \in 1..Len(symbols) :
               j < k => AlphabetIndex(symbols[j]) < AlphabetIndex(symbols[k])
        /\ Len(output) = f + o

\* C10: for dims that fit the alphabet (26 letters for _build_proj_equation,
\* 13 for DenseEinsum._build_einsum_string) both generators return
\* input = free ++ bound, kernel = bound ++ output, output = free ++ output,
\* the symbols pairwise distinct and in increasing alphabet order (free block,
\* bound block, output block); the rank _build_proj_equation returns is
\* free_dims + output_dims, and its bias axes are the output block.
C10_SubscriptBlocks ==
    /\ (equation.proj # None /\ Fits(ascii_lowercase)) =>
           /\ SubscriptsInOrder(equation.proj[1], ascii_lowercase)
           /\ equation.proj[1].rank = equation.free_dims + equation.output_dims
           /\ equation.proj[1].bias_axes =
                  Block(ascii_lowercase,
                        equation.free_dims + equation.bound_dims,
                        equation.output_dims)
    /\ (equation.einsum # None /\ Fits(DenseEinsum_CHR_IDX)) =>
           SubscriptsInOrder(equation.einsum[1], DenseEinsum_CHR_IDX)

\* free 2, bound 1, output 2: both generators give "abc,cde->abde"
C10_Witness ==
    /\ equation.free_dims = 2 /\ equation.bound_dims = 1 /\ equation.output_dims = 2
    /\ equation.proj # None /\ equation.einsum # None
    /\ equation.proj[1].equation =
           <<"a", "b", "c", ",", "c", "d", "e", "-", ">", "a", "b", "d", "e">>
    /\ equation.proj[1].rank = 4
    /\ equation.einsum[1].equation = equation.proj[1].equation

--------------------------------------------------------------------------
(* FullTokenizer.tokenize degrades to the placeholder, concurrent calls *)

\* C7: FullTokenizer.tokenize never raises (at every position before its
\* return it has a next step: the loop over the basic tokens takes a token or
\* returns, the wordpiece call takes a step or hands its tokens back, whatever
\* the vocabulary and the text) and every token it returns is an entry of the
\* vocabulary or unk_token: a token
\* without a segmentation and a token longer than max_input_chars_per_word
\* contribute unk_token, every other token its pieces.
C7_DegradesToPlaceholder ==
    \A t \in DOMAIN full :
        LET c == full[t] IN
        /\ \A k \in 1..Len(c.split_tokens) :
               c.split_tokens[k] \in DOMAIN vocab \cup {unk_token}
        /\ c.pc \in {"for_token", "wordpiece", "return"}
        /\ c.pc = "for_token" => c.j <= Len(c.basic_tokens)
        /\ c.pc = "wordpiece" =>
               /\ t \in DOMAIN frame
               /\ ENABLED (WordpieceStep \/ FullExtend(t))
        /\ c.pc = "return" => c.split_tokens = Expected(c.basic_tokens)

\* "Aé <401 a's> ." returned: a token without a segmentation and the
\* over-length token as unk_token, "." as itself
C7_Witness ==
    \E t \in DOMAIN full :
        LET c == full[t] IN
        /\ c.pc = "return"
        /\ c.text = MixedText
        /\ Len(c.basic_tokens) = 3
        /\ Len(c.basic_tokens[1]) <= max_input_chars_per_word
        /\ Stuck(c.basic_tokens[1])
        /\ Len(c.basic_tokens[2]) > max_input_chars_per_word
        /\ c.split_tokens = <<unk_token, unk_token, <<".">> >>

\* a vocabulary without [UNK]: the call still returns, with the placeholder
C7_WitnessNoUnk ==
    \E t \in DOMAIN full :
        /\ full[t].pc = "return"
        /\ unk_token \notin DOMAIN vocab
        /\ \E k \in 1..Len(full[t].split_tokens) :
               full[t].split_tokens[k] = unk_token

\* C9: under every interleaving of the calls of the threads, vocab and
\* inv_vocab stay what construction made them, every tokenize call returns
\* what it returns alone, and every convert_tokens_to_ids call returns (or
\* raises KeyError) as it does alone.
C9_ReadOnlyVocabulary ==
    /\ vocab = load_vocab(loader.file)
    /\ inv_vocab = Inverse(load_vocab(loader.file))
    /\ \A t \in DOMAIN full :
           LET c == full[t]
               alone == FullTokenizer_tokenize(load_vocab(loader.file), c.text)
               ids == convert_by_vocab(load_vocab(loader.file), alone)
           IN  /\ c.pc \in {"return", "convert", "converted", "raised"} =>
                      c.split_tokens = alone
               /\ c.pc = "converted" => (~ids.raised /\ c.output = ids.output)
               /\ c.pc = "raised" => (ids.raised /\ c.output = ids.output)

\* one thread has its ids while another is in the middle of a lookup loop of
\* a different text
C9_Witness ==
    \E t, u \in DOMAIN full :
        /\ t # u
        /\ full[t].text # full[u].text
        /\ full[t].pc = "converted"
        /\ full[t].output # <<>>
        /\ full[u].pc = "wordpiece"
        /\ frame[u].pc = "while_end"
        /\ frame[u].probed # <<>>

\* a call that raised KeyError (the placeholder is no entry) beside one that
\* returned its ids
C9_WitnessRaised ==
    \E t, u \in DOMAIN full :
        /\ full[t].pc = "raised"
        /\ full[u].pc = "converted"

--------------------------------------------------------------------------
(* The equation generators past the end of their alphabet *)

\* the number of symbols the dims of the state ask for
SymbolsAsked ==
    equation.free_dims + equation.bound_dims + equation.output_dims

\* C11: _build_proj_equation raises (IndexError) and returns no equation
\* exactly when free_dims + bound_dims + output_dims exceeds 26, and
\* DenseEinsum._build_einsum_string exactly when it exceeds 13; for every total
\* up to the size of the alphabet the generator returns its equation.
C11_AlphabetOverflow ==
    /\ equation.proj # None =>
           /\ equation.proj[1].raised <=> SymbolsAsked > 26
           /\ equation.proj[1].raised => equation.proj[1].equation = <<>>
           /\ ~equation.proj[1].raised =>
                  Len(equation.proj[1].equation) =
                      2 * SymbolsAsked + 3
    /\ equation.einsum # None =>
           /\ equation.einsum[1].raised <=> SymbolsAsked > 13
           /\ equation.einsum[1].raised => equation.einsum[1].equation = <<>>
           /\ ~equation.einsum[1].raised =>
                  Len(equation.einsum[1].equation) =
                      2 * SymbolsAsked + 3

\* 14 symbols: one more than a .. m, DenseEinsum fails where
\* _build_proj_equation still returns
C11_Witness ==
    /\ SymbolsAsked = 14
    /\ equation.proj # None /\ equation.einsum # None
    /\ equation.einsum[1].raised
    /\ ~equation.proj[1].raised

\* 27 symbols: one more than a .. z, both fail
C11_WitnessBoth ==
    /\ SymbolsAsked = 27
    /\ equation.proj # None /\ equation.einsum # None
    /\ equation.einsum[1].raised
    /\ equation.proj[1].raised

\* the full alphabets: 26 and 13 symbols, both return
C11_WitnessFull ==
    /\ equation.proj # None /\ equation.einsum # None
    /\ \/ SymbolsAsked = 26 /\ ~equation.proj[1].raised
       \/ SymbolsAsked = 13 /\ ~equation.einsum[1].raised

--------------------------------------------------------------------------
(* _build_attention_equation *)

\* the elements of a tuple
Range(seq) == { seq[k] : k \in 1..Len(seq) }

\* tuple(np.delete(range(qkv_rank), attn_axes + (qkv_rank - 1,))): the axes
\* that are neither in attn_axes nor the last one, in increasing order
batch_dims(qkv_rank, attn_axes) ==
    Sorted({ i \in 0..(qkv_rank - 1) :
                 i \notin Range(attn_axes) \cup {qkv_rank - 1} })

\* _CHR_IDX[:qkv_rank]
target_notation(qkv_rank) ==
    SubSeq(ascii_lowercase, 1,
           IF qkv_rank < Len(ascii_lowercase) THEN qkv_rank
           ELSE Len(ascii_lowercase))

RECURSIVE source_loop(_, _, _, _, _)
\* for i in range(qkv_rank), from i on: the source notation
source_loop(qkv_rank, batch, i, letter_offset, source_notation) ==
    IF ~(i < qkv_rank) THEN source_notation
    ELSE IF i \in Range(batch) \/ i = qkv_rank - 1
    THEN source_loop(qkv_rank, batch, i + 1, letter_offset,
             Append(source_notation, target_notation(qkv_rank)[i + 1]))
    ELSE source_loop(qkv_rank, batch, i + 1, letter_offset + 1,
             Append(source_notation, ascii_lowercase[letter_offset + 1]))

\* (dot_product_equation, combine_equation, attn_scores_rank)
_build_attention_equation(qkv_rank, attn_axes) ==
    LET target == target_notation(qkv_rank)
        batch == batch_dims(qkv_rank, attn_axes)
        source == source_loop(qkv_rank, batch, 0, qkv_rank, <<>>)
        product_notation ==
            [k \in 1..Len(batch) |-> target[batch[k] + 1]]
            \o [k \in 1..Len(attn_axes) |-> target[attn_axes[k] + 1]]
            \o [k \in 1..Len(attn_axes) |-> source[attn_axes[k] + 1]]
    IN  [dot_product_equation |-> format_equation(source, target, product_notation),
         combine_equation |-> format_equation(product_notation, source, target),
         attn_scores_rank |-> Len(product_notation)]

\* a call of _build_attention_equation with the arguments of the state
BuildAttentionEquation ==
    /\ layers.attention_equation # None
    /\ layers.attention_equation.returned = None
    /\ layers' = [layers EXCEPT !.attention_equation.returned =
           Some(_build_attention_equation(layers.attention_equation.qkv_rank,
                                          layers.attention_equation.attn_axes))]
    /\ UNCHANGED <<vocab, unk_token, max_input_chars_per_word, frame, inv_vocab,
                   loader, max_sequence_length, encode, full, equation>>

MaxRank == 5

\* the tuples of distinct axes out of [1, qkv_rank)
AxesTuples(qkv_rank) ==
    { axes \in SeqsUpTo(1..(qkv_rank - 1), qkv_rank - 1) :
          \A j, k \in 1..Len(axes) : axes[j] = axes[k] => j = k }

InitAttentionEquation ==
    /\ loader = Opened(<<>>)
    /\ vocab = <<>>
    /\ inv_vocab = <<>>
    /\ unk_token = UNK
    /\ max_input_chars_per_word = DefaultMaxInputChars
    /\ frame = <<>>
    /\ max_sequence_length = 0
    /\ encode = NoEncode
    /\ full = <<>>
    /\ equation = NoEquation
    /\ \E qkv_rank \in 1..MaxRank :
           \E attn_axes \in AxesTuples(qkv_rank) :
               layers = [NoLayers EXCEPT !.attention_equation =
                            [qkv_rank |-> qkv_rank, attn_axes |-> attn_axes,
                             returned |-> None]]

NextAttentionEquation == BuildAttentionEquation

SpecAttentionEquation == InitAttentionEquation /\ [][NextAttentionEquation]_vars

\* the arguments of the call and the notations of the dot-product equation it
\* returned: "source,target->product"
AttnRank == layers.attention_equation.qkv_rank

AttnAxes == Range(layers.attention_equation.attn_axes)

AttnReturned == layers.attention_equation.returned[1]

SourceNotation == InputSubscripts(AttnReturned.dot_product_equation)

TargetNotation == KernelSubscripts(AttnReturned.dot_product_equation)

ProductNotation == OutputSubscripts(AttnReturned.dot_product_equation)

\* every axis except the attended axes and the trailing axis
BatchAxes == { i \in 0..(AttnRank - 1) : i \notin AttnAxes /\ i # AttnRank - 1 }

\* the source symbol of axis i occurs nowhere in the target notation and at no
\* other axis of the source notation
FreshSourceSymbol(i) ==
    /\ SourceNotation[i + 1] \notin Range(TargetNotation)
    /\ \A j \in 0..(AttnRank - 1) :
           SourceNotation[j + 1] = SourceNotation[i + 1] => j = i

\* the batch axes open the product notation with the target's symbols, in axis
\* order, and they and the trailing axis have the target's symbol in the
\* source notation
BatchAxesKeepSymbols ==
    /\ Len(SourceNotation) = AttnRank
    /\ TargetNotation = SubSeq(ascii_lowercase, 1, AttnRank)
    /\ SubSeq(ProductNotation, 1, Cardinality(BatchAxes))
           = [k \in 1..Cardinality(BatchAxes) |->
                 TargetNotation[Sorted(BatchAxes)[k] + 1]]
    /\ \A i \in BatchAxes \cup {AttnRank - 1} :
           SourceNotation[i + 1] = TargetNotation[i + 1]

\* C12 as stated: for every rank and every tuple of axes out of [1, rank), the
\* batch axes of _build_attention_equation are every axis except the attended
\* axes and the trailing axis (their symbols open the product notation, in
\* axis order); every batch axis and the trailing axis have the target's
\* symbol in the source notation; and every attended axis, each axis of
\* attn_axes, has a source symbol that occurs nowhere in the target notation
\* and at no other axis, so that the source's and the target's lengths on it
\* may differ.
C12_FreshSourceSymbols ==
    layers.attention_equation.returned # None =>
        /\ BatchAxesKeepSymbols
        /\ \A i \in AttnAxes : FreshSourceSymbol(i)

\* what the code does for every tuple of axes: the batch axes and the trailing
\* axis keep the target's symbol, and every axis of attn_axes but the
\* trailing one has a fresh source symbol
C12_FreshSourceSymbolsBeforeChannels ==
    layers.attention_equation.returned # None =>
        /\ BatchAxesKeepSymbols
        /\ \A i \in AttnAxes \ {AttnRank - 1} : FreshSourceSymbol(i)

\* rank 3 with the trailing axis attended: source "abc" is the target "abc",
\* the attended axis 2 has the target's symbol c
C12_WitnessTrailing ==
    /\ layers.attention_equation.returned # None
    /\ AttnRank = 3
    /\ layers.attention_equation.attn_axes = <<2>>
    /\ SourceNotation = <<"a", "b", "c">>
    /\ TargetNotation = SourceNotation

\* rank 4 with the axes 1 and 2 attended: source "aefd" against target "abcd"
C12_Witness ==
    /\ layers.attention_equation.returned # None
    /\ AttnRank = 4
    /\ layers.attention_equation.attn_axes = <<1, 2>>
    /\ SourceNotation = <<"a", "e", "f", "d">>
    /\ TargetNotation = <<"a", "b", "c", "d">>
    /\ BatchAxes = {0}

\* [B, T, N, H] with axis 1 attended: "aecd,abcd->acbe"
C12_WitnessSequence ==
    /\ layers.attention_equation.returned # None
    /\ AttnReturned.dot_product_equation =
           <<"a", "e", "c", "d", ",", "a", "b", "c", "d", "-", ">",
             "a", "c", "b", "e">>

--------------------------------------------------------------------------
(* BertTokenizer.call *)

\* tf.zeros_like(tensor)
zeros_like(tensor) ==
    [b \in 1..Len(tensor) |-> [k \in 1..Len(tensor[b]) |-> 0]]

\* BertTokenizer.call(inputs): bert_encode through tf.numpy_function, then the
\* mask and the type ids; a KeyError of bert_encode ends the call
BertTokenizer_call ==
    /\ loader.pc = "ready"
    /\ encode.pc = "idle"
    /\ layers.tokenizer # None
    /\ layers.tokenizer.returned = None
    /\ \E r \in {bert_encode(vocab, max_sequence_length, layers.tokenizer.inputs)} :
           /\ encode' = [pc |-> "returned",
                         input_tensor |-> layers.tokenizer.inputs,
                         raised |-> r.raised, input_word_ids |-> r.output]
           /\ layers' = [layers EXCEPT !.tokenizer.returned =
                  Some([raised |-> r.raised,
                        input_word_ids |-> r.output,
                        input_mask |-> zeros_like(r.output),
                        input_type_ids |-> zeros_like(r.output)])]
    /\ UNCHANGED <<vocab, unk_token, max_input_chars_per_word, frame, inv_vocab,
                   loader, max_sequence_length, full, equation>>

InitTokenizerCall ==
    /\ loader \in { Loaded(lines) : lines \in EncVocabFiles }
    /\ vocab = load_vocab(loader.file)
    /\ inv_vocab = Inverse(vocab)
    /\ unk_token = UNK
    /\ max_input_chars_per_word = DefaultMaxInputChars
    /\ frame = <<>>
    /\ max_sequence_length \in 0..MaxSeqLen
    /\ encode = NoEncode
    /\ full = <<>>
    /\ equation = NoEquation
    /\ \E inputs \in Batches :
           layers = [NoLayers EXCEPT !.tokenizer =
                        [inputs |-> inputs, returned |-> None]]

NextTokenizerCall == BertTokenizer_call

SpecTokenizerCall == InitTokenizerCall /\ [][NextTokenizerCall]_vars

\* what BertTokenizer.call returned
Called == layers.tokenizer # None /\ layers.tokenizer.returned # None

CallReturned == layers.tokenizer.returned[1]

\* the positions of row b that hold an id of the sentence ([CLS], a sub-word
\* or [SEP]); the others hold the padding of to_tensor
TokenPositions(b) ==
    { k \in 1..Len(Row(b)) : k <= Len(Framed(Sentence(b))) }

\* C13: the mask BertTokenizer.call returns is non-zero at every position that
\* holds a token id and zero at every padding position.
C13_MaskMarksTokens ==
    (Called /\ ~CallReturned.raised) =>
        \A b \in Rows :
            \A k \in 1..Len(Row(b)) :
                /\ k \in TokenPositions(b) => CallReturned.input_mask[b][k] # 0
                /\ k \notin TokenPositions(b) => CallReturned.input_mask[b][k] = 0

\* what the code does: the mask is zero at every position, token or padding
C13_MaskAllZero ==
    (Called /\ ~CallReturned.raised) =>
        /\ CallReturned.input_word_ids = encode.input_word_ids
        /\ \A b \in Rows :
               /\ Len(CallReturned.input_mask[b]) = Len(Row(b))
               /\ \A k \in 1..Len(Row(b)) : CallReturned.input_mask[b][k] = 0

\* a batch with token positions and a padding position, the mask zero at all
C13_Reached ==
    /\ Called /\ ~CallReturned.raised
    /\ \E b \in Rows : TokenPositions(b) # {}
    /\ \E b \in Rows : \E k \in 1..Len(Row(b)) : k \notin TokenPositions(b)

--------------------------------------------------------------------------
(* Tensors: a shape and a value at every index (0-based, one per axis) *)

\* the indices of a tensor of the given shape
Indices(shape) ==
    { idx \in [1..Len(shape) -> 0..(MaxOfSet(Range(shape) \cup {1}) - 1)] :
          \A k \in 1..Len(shape) : idx[k] < shape[k] }

Tensor(shape, data) == [shape |-> shape, data |-> data]

\* a sequence without its element at position p (1-based)
Without(seq, p) == SubSeq(seq, 1, p - 1) \o SubSeq(seq, p + 1, Len(seq))

\* tf.expand_dims(tensor, axis) for 0 <= axis <= rank: an axis of size 1 at
\* position axis, the values as they were
expand_dims(tensor, axis) ==
    LET shape == SubSeq(tensor.shape, 1, axis) \o <<1>>
                     \o SubSeq(tensor.shape, axis + 1, Len(tensor.shape))
    IN  Tensor(shape, [idx \in Indices(shape) |->
                          tensor.data[Without(idx, axis + 1)]])

\* the shape two shapes broadcast to (aligned at the last axis), None when
\* they do not broadcast
broadcast_shape(s1, s2) ==
    LET n == IF Len(s1) > Len(s2) THEN Len(s1) ELSE Len(s2)
        dim(s, k) == IF k > n - Len(s) THEN s[k - (n - Len(s))] ELSE 1
    IN  IF \A k \in 1..n : dim(s1, k) = dim(s2, k) \/ dim(s1, k) = 1
                               \/ dim(s2, k) = 1
        THEN Some([k \in 1..n |-> IF dim(s1, k) = 1 THEN dim(s2, k)
                                  ELSE dim(s1, k)])
        ELSE None

\* the index of tensor t that an index of the broadcast shape reads
broadcast_index(shape, idx) ==
    LET off == Len(idx) - Len(shape)
    IN  [k \in 1..Len(shape) |-> IF shape[k] = 1 THEN 0 ELSE idx[k + off]]

\* t1 + t2 with broadcasting (the shapes broadcast)
broadcast_add(t1, t2) ==
    LET shape == broadcast_shape(t1.shape, t2.shape)[1]
    IN  Tensor(shape, [idx \in Indices(shape) |->
                          t1.data[broadcast_index(t1.shape, idx)]
                              + t2.data[broadcast_index(t2.shape, idx)]])

--------------------------------------------------------------------------
(* MaskedSoftmax.call *)

\* the mask padded once however many axes it lacks
expand_mask_Once(mask, mask_expansion_axes, n) ==
    IF n <= 0 THEN mask
    ELSE expand_dims(mask, mask_expansion_axes[1])

RECURSIVE expand_mask(_, _, _)
\* for _ in range(n): mask = tf.expand_dims(mask, axis=self._mask_expansion_axes)
expand_mask(mask, mask_expansion_axes, n) ==
    IF n <= 0 THEN mask
    ELSE expand_mask(expand_dims(mask, mask_expansion_axes[1]),
                     mask_expansion_axes, n - 1)

\* the adder with the mask read as the positions to leave out: mask * -10000.0
adder_Inverted(mask) ==
    Tensor(mask.shape, [idx \in Indices(mask.shape) |-> mask.data[idx] * (-10000)])

\* adder = (1.0 - tf.cast(mask, scores.dtype)) * -10000.0
adder(mask) ==
    Tensor(mask.shape,
           [idx \in Indices(mask.shape) |-> (1 - mask.data[idx]) * (-10000)])

\* MaskedSoftmax.call(scores, mask): the function applied to the scores
\* ("softmax" over one axis, or "exp_minus_logsumexp" over the axes), and the
\* scores it is applied to; raised when scores and adder do not broadcast
MaskedSoftmax_call(mask_expansion_axes, normalization_axes, scores, mask) ==
    LET expanded == expand_mask(mask[1], mask_expansion_axes,
                                Len(scores.shape) - Len(mask[1].shape))
        raised == mask # None
                  /\ broadcast_shape(scores.shape, expanded.shape) = None
        added == IF mask # None THEN broadcast_add(scores, adder(expanded))
                 ELSE scores
    IN  IF raised
        THEN [raised |-> TRUE, normalization |-> "", axes |-> <<>>,
              scores |-> Tensor(<<>>, <<>>), mask |-> None]
        ELSE [raised |-> FALSE,
              mask |-> IF mask # None THEN Some(expanded) ELSE None,
              normalization |-> IF Len(normalization_axes) = 1 THEN "softmax"
                                ELSE "exp_minus_logsumexp",
              axes |-> normalization_axes,
              scores |-> added]

\* a call of MaskedSoftmax.call with the layer and the arguments of the state
MaskedSoftmaxCall ==
    /\ layers.softmax # None
    /\ layers.softmax.returned = None
    /\ layers' = [layers EXCEPT !.softmax.returned =
           Some(MaskedSoftmax_call(layers.softmax.mask_expansion_axes,
                                   layers.softmax.normalization_axes,
                                   layers.softmax.scores, layers.softmax.mask))]
    /\ UNCHANGED <<vocab, unk_token, max_input_chars_per_word, frame, inv_vocab,
                   loader, max_sequence_length, encode, full, equation>>

MaxHeads == 2

MaxSeq == 2

\* scores [1, N, T, S], every score different
ScoresOf(N, T, S) ==
    Tensor(<<1, N, T, S>>,
           [idx \in Indices(<<1, N, T, S>>) |->
               7 * idx[2] - 3 * idx[3] + idx[4] - 1])

\* the masks of a shape: every choice of 0 and 1
MasksOf(shape) ==
    { Tensor(shape, data) : data \in [Indices(shape) -> {0, 1}] }

\* no mask, or a mask [1, T, S], [1, 1, T, S] or [1, S]
MaskChoices(N, T, S) ==
    {None} \cup { Some(m) : m \in MasksOf(<<1, T, S>>) \cup MasksOf(<<1, 1, T, S>>)
                                    \cup MasksOf(<<1, S>>) }

\* scores [2, N, 1, 1]: two samples, one position each
BatchScoresOf(N) ==
    Tensor(<<2, N, 1, 1>>,
           [idx \in Indices(<<2, N, 1, 1>>) |-> 5 * idx[1] + 2 * idx[2]])

\* a mask [2, 1, 1], [2, 1, 1, 1] or [2, 1] for them
BatchMaskChoices ==
    { Some(m) : m \in MasksOf(<<2, 1, 1>>) \cup MasksOf(<<2, 1, 1, 1>>)
                          \cup MasksOf(<<2, 1>>) }

InitSoftmax ==
    /\ loader = Opened(<<>>)
    /\ vocab = <<>>
    /\ inv_vocab = <<>>
    /\ unk_token = UNK
    /\ max_input_chars_per_word = DefaultMaxInputChars
    /\ frame = <<>>
    /\ max_sequence_length = 0
    /\ encode = NoEncode
    /\ full = <<>>
    /\ equation = NoEquation
    /\ \/ \E N \in 1..MaxHeads, T \in 1..MaxSeq, S \in 1..MaxSeq :
           \E mask \in MaskChoices(N, T, S) :
               \E normalization_axes \in {<<-1>>, <<3>>, <<2, 3>>} :
                   layers = [NoLayers EXCEPT !.softmax =
                       [mask_expansion_axes |-> <<1>>,
                        normalization_axes |-> normalization_axes,
                        scores |-> ScoresOf(N, T, S), mask |-> mask,
                        returned |-> None]]
       \/ \E N \in 1..MaxHeads :
              \E mask \in BatchMaskChoices :
                  layers = [NoLayers EXCEPT !.softmax =
                      [mask_expansion_axes |-> <<1>>,
                       normalization_axes |-> <<-1>>,
                       scores |-> BatchScoresOf(N), mask |-> mask,
                       returned |-> None]]

NextSoftmax == MaskedSoftmaxCall

SpecSoftmax == InitSoftmax /\ [][NextSoftmax]_vars

--------------------------------------------------------------------------
(* C14 *)

SoftmaxReturned == layers.softmax # None /\ layers.softmax.returned # None

\* the position of the mask that stands for a position of the scores: the
\* batch axis and the trailing axes of the scores, an axis of size 1 read at 0
MaskPosition(mask, idx) ==
    [k \in 1..Len(mask.shape) |->
        IF mask.shape[k] = 1 THEN 0
        ELSE IF k = 1 THEN idx[1]
        ELSE idx[k + Len(idx) - Len(mask.shape)]]

\* the offset the claim gives a position of the scores
OffsetAt(mask, idx) ==
    IF mask = None THEN 0
    ELSE IF mask[1].data[MaskPosition(mask[1], idx)] = 0 THEN -10000
    ELSE 0

\* C14: in MaskedSoftmax.call with a mask, the scores that are normalized are
\* the given scores with -10000 added at every position whose mask value is 0
\* and nothing added at every position whose mask value is 1; without a mask
\* the scores are normalized as given.
C14_MaskOffsets ==
    SoftmaxReturned =>
        LET s == layers.softmax
            r == s.returned[1]
        IN  /\ ~r.raised
            /\ r.scores.shape = s.scores.shape
            /\ \A idx \in Indices(s.scores.shape) :
                   r.scores.data[idx] = s.scores.data[idx] + OffsetAt(s.mask, idx)

\* a call with a mask [1, T, S] holding both a 0 and a 1, under two heads
C14_Witness ==
    /\ SoftmaxReturned
    /\ layers.softmax.mask # None
    /\ Len(layers.softmax.mask[1].shape) = 3
    /\ layers.softmax.scores.shape[2] = 2
    /\ \E i, j \in Indices(layers.softmax.mask[1].shape) :
           /\ layers.softmax.mask[1].data[i] = 0
           /\ layers.softmax.mask[1].data[j] = 1

\* a call without a mask
C14_WitnessNoMask == SoftmaxReturned /\ layers.softmax.mask = None

--------------------------------------------------------------------------
(* tf.einsum and EinsumDense, by the shapes of their operands *)

\* the first position (1-based) of a character in a subscript string
find(subscripts, char) ==
    CHOOSE k \in 1..Len(subscripts) :
        /\ subscripts[k] = char
        /\ \A j \in 1..(k - 1) : subscripts[j] # char

\* the three subscript strings of an equation "in1,in2->out"
einsum_specs(eq) ==
    LET comma == find(eq, ",")
        arrow == find(eq, "-")
    IN  [in1 |-> SubSeq(eq, 1, comma - 1),
         in2 |-> SubSeq(eq, comma + 1, arrow - 1),
         out |-> SubSeq(eq, arrow + 2, Len(eq))]

\* the shape of tf.einsum(equation, t1, t2) for operands of shapes shape1 and
\* shape2; raised when a rank differs from its subscripts or a symbol stands
\* for two sizes
einsum(eq, shape1, shape2) ==
    LET specs == einsum_specs(eq)
        size(char) == IF char \in Range(specs.in1)
                      THEN shape1[find(specs.in1, char)]
                      ELSE shape2[find(specs.in2, char)]
        raised == \/ Len(specs.in1) # Len(shape1)
                  \/ Len(specs.in2) # Len(shape2)
                  \/ \E j \in 1..Len(specs.in1), k \in 1..Len(specs.in2) :
                         specs.in1[j] = specs.in2[k] /\ shape1[j] # shape2[k]
    IN  IF raised THEN [raised |-> TRUE, shape |-> <<>>]
        ELSE [raised |-> FALSE,
              shape |-> [k \in 1..Len(specs.out) |-> size(specs.out[k])]]

\* [None] * (output_rank - len(known_last_dims)) + list(known_last_dims)
_get_output_shape(output_rank, known_last_dims) ==
    [k \in 1..(output_rank - Len(known_last_dims)) |-> None]
        \o [k \in 1..Len(known_last_dims) |-> Some(known_last_dims[k])]

\* EinsumDense(equation, output_shape=..., bias_axes=...)
EinsumDense(eq, output_shape, bias_axes) ==
    [equation |-> eq, output_shape |-> output_shape, bias_axes |-> bias_axes]

\* the kernel of an EinsumDense layer for an input shape: a kernel axis has
\* the size of the input axis of its symbol, or else of the output axis of
\* its symbol in (batch,) + output_shape
EinsumDense_kernel(dense, input_shape) ==
    LET specs == einsum_specs(dense.equation)
        full_output_shape == <<None>> \o dense.output_shape
    IN  [k \in 1..Len(specs.in2) |->
            IF specs.in2[k] \in Range(specs.in1)
            THEN input_shape[find(specs.in1, specs.in2[k])]
            ELSE full_output_shape[find(specs.out, specs.in2[k])][1]]

\* the shape of dense(inputs): einsum(equation, inputs, kernel), the bias
\* added along bias_axes
EinsumDense_call(dense, input_shape) ==
    einsum(dense.equation, input_shape, EinsumDense_kernel(dense, input_shape))

--------------------------------------------------------------------------
(* MultiHeadAttention *)

\* MultiHeadAttention(num_heads, key_size, value_size): value_size None
\* stands for key_size; nothing is built
MultiHeadAttention_init(num_heads, key_size, value_size, output_shape) ==
    [_num_heads |-> num_heads,
     _key_size |-> key_size,
     _value_size |-> IF value_size # None /\ value_size[1] # 0
                     THEN value_size[1] ELSE key_size,
     _output_shape |-> output_shape,
     _attention_axes |-> None,
     built |-> None]

\* the projection of rank-free_dims+1 inputs onto the last dimensions
\* known_last_dims
proj_dense(free_dims, bound_dims, known_last_dims) ==
    LET proj == _build_proj_equation(free_dims, bound_dims, Len(known_last_dims))
    IN  EinsumDense(proj.equation,
                    _get_output_shape(proj.rank - 1, known_last_dims),
                    proj.bias_axes)

\* range(1, qkv_rank - 2) as a tuple
default_attention_axes(qkv_rank) == [k \in 1..(qkv_rank - 3) |-> k]

\* _build_attention(qkv_rank): the attention axes, the two equations and the
\* masked softmax over the last len(attention_axes) axes of the scores
_build_attention(self, qkv_rank) ==
    LET axes == IF self._attention_axes = None
                THEN default_attention_axes(qkv_rank)
                ELSE self._attention_axes[1]
        eqs == _build_attention_equation(qkv_rank, axes)
    IN  [_attention_axes |-> axes,
         _dot_product_equation |-> eqs.dot_product_equation,
         _combine_equation |-> eqs.combine_equation,
         _masked_softmax |->
             [mask_expansion_axes |-> <<1>>,
              normalization_axes |->
                  [k \in 1..Len(axes) |->
                      eqs.attn_scores_rank - Len(axes) + k - 1]]]

\* build with the output projection as wide as the heads together:
\* output_shape = [num_heads * value_size]
MultiHeadAttention_build_HeadsWide(self, input_shape) ==
    LET inputs_len == Len(input_shape)
        query_shape == input_shape[1]
        value_shape == input_shape[2]
        key_shape == IF inputs_len = 3 THEN input_shape[3] ELSE value_shape
        free_dims == Len(query_shape) - 1
        output_rank == (Len(value_shape) - 1) + 2
        output_shape == <<self._num_heads * self._value_size>>
    IN  IF inputs_len > 3 \/ inputs_len < 2
        THEN [raised |-> TRUE, _query_dense |-> None, _key_dense |-> None,
              _value_dense |-> None, _output_dense |-> None, _attention |-> None]
        ELSE [raised |-> FALSE,
              _query_dense |-> Some(proj_dense(free_dims, 1,
                                  <<self._num_heads, self._key_size>>)),
              _key_dense |-> Some(proj_dense(Len(key_shape) - 1, 1,
                                  <<self._num_heads, self._key_size>>)),
              _value_dense |-> Some(proj_dense(Len(value_shape) - 1, 1,
                                  <<self._num_heads, self._value_size>>)),
              _attention |-> Some(_build_attention(self, output_rank)),
              _output_dense |-> Some(proj_dense(free_dims, 2, output_shape))]

\* MultiHeadAttention.build(input_shape), input_shape the list of the shapes
\* of [query, value] or [query, value, key]: the layers it constructs, or
\* raised (ValueError) and none constructed
MultiHeadAttention_build(self, input_shape) ==
    LET inputs_len == Len(input_shape)
        query_shape == input_shape[1]
        value_shape == input_shape[2]
        key_shape == IF inputs_len = 3 THEN input_shape[3] ELSE value_shape
        free_dims == Len(query_shape) - 1
        output_rank == (Len(value_shape) - 1) + 2
        output_shape == IF self._output_shape # None /\ self._output_shape[1] # <<>>
                        THEN self._output_shape[1]
                        ELSE <<query_shape[Len(query_shape)]>>
    IN  IF inputs_len > 3 \/ inputs_len < 2
        THEN [raised |-> TRUE, _query_dense |-> None, _key_dense |-> None,
              _value_dense |-> None, _output_dense |-> None, _attention |-> None]
        ELSE [raised |-> FALSE,
              _query_dense |-> Some(proj_dense(free_dims, 1,
                                  <<self._num_heads, self._key_size>>)),
              _key_dense |-> Some(proj_dense(Len(key_shape) - 1, 1,
                                  <<self._num_heads, self._key_size>>)),
              _value_dense |-> Some(proj_dense(Len(value_shape) - 1, 1,
                                  <<self._num_heads, self._value_size>>)),
              _attention |-> Some(_build_attention(self, output_rank)),
              _output_dense |-> Some(proj_dense(free_dims, 2, output_shape))]

\* a tensor of a shape, zero everywhere (a stand-in where only shapes count)
zeros(shape) == Tensor(shape, [idx \in Indices(shape) |-> 0])

\* _compute_attention by shapes: the scores, the scores after the masked
\* softmax, and the attention output
_compute_attention(built, query_tensor, key_tensor, value_tensor, attention_mask) ==
    LET attn == built._attention[1]
        scores == einsum(attn._dot_product_equation, key_tensor, query_tensor)
        softmax == IF scores.raised THEN [raised |-> TRUE]
                   ELSE MaskedSoftmax_call(
                            attn._masked_softmax.mask_expansion_axes,
                            attn._masked_softmax.normalization_axes,
                            zeros(scores.shape),
                            IF attention_mask = None THEN None
                            ELSE Some(zeros(attention_mask[1])))
        output == IF softmax.raised THEN [raised |-> TRUE, shape |-> <<>>]
                  ELSE einsum(attn._combine_equation, softmax.scores.shape,
                              value_tensor)
    IN  [raised |-> output.raised,
         attention_scores |-> IF softmax.raised THEN <<>> ELSE softmax.scores.shape,
         attention_output |-> output.shape]

\* MultiHeadAttention.call(inputs, attention_mask) by shapes, on a built
\* layer: the shape of the output and of the tensors on the way, or raised
MultiHeadAttention_call(built, inputs, attention_mask) ==
    LET inputs_len == Len(inputs)
        query == inputs[1]
        value == inputs[2]
        key == IF inputs_len = 3 THEN inputs[3] ELSE value
        query_tensor == EinsumDense_call(built._query_dense[1], query)
        key_tensor == EinsumDense_call(built._key_dense[1], key)
        value_tensor == EinsumDense_call(built._value_dense[1], value)
        projected == ~query_tensor.raised /\ ~key_tensor.raised
                         /\ ~value_tensor.raised
        attention == IF projected
                     THEN _compute_attention(built, query_tensor.shape,
                              key_tensor.shape, value_tensor.shape, attention_mask)
                     ELSE [raised |-> TRUE, attention_scores |-> <<>>,
                           attention_output |-> <<>>]
        output == IF attention.raised THEN [raised |-> TRUE, shape |-> <<>>]
                  ELSE EinsumDense_call(built._output_dense[1],
                                        attention.attention_output)
    IN  IF inputs_len > 3 \/ inputs_len < 2 \/ output.raised
        THEN [raised |-> TRUE, query_tensor |-> <<>>, key_tensor |-> <<>>,
              value_tensor |-> <<>>, attention_scores |-> <<>>, shape |-> <<>>]
        ELSE [raised |-> FALSE,
              query_tensor |-> query_tensor.shape,
              key_tensor |-> key_tensor.shape,
              value_tensor |-> value_tensor.shape,
              attention_scores |-> attention.attention_scores,
              shape |-> output.shape]

LayersUnchanged ==
    UNCHANGED <<vocab, unk_token, max_input_chars_per_word, frame, inv_vocab,
                loader, max_sequence_length, encode, full, equation>>

\* MultiHeadAttention.build on the shapes of the inputs of the state
MultiHeadAttentionBuild ==
    /\ layers.attention # None
    /\ layers.attention.self.built = None
    /\ layers' = [layers EXCEPT !.attention.self.built =
           Some(MultiHeadAttention_build(layers.attention.self,
                                         layers.attention.inputs))]
    /\ LayersUnchanged

\* MultiHeadAttention.call on the built layer
MultiHeadAttentionCall ==
    /\ layers.attention # None
    /\ layers.attention.self.built # None
    /\ ~layers.attention.self.built[1].raised
    /\ layers.attention.returned = None
    /\ layers' = [layers EXCEPT !.attention.returned =
           Some(MultiHeadAttention_call(layers.attention.self.built[1],
                                        layers.attention.inputs,
                                        layers.attention.attention_mask))]
    /\ LayersUnchanged

MaxBatchSize == 2

MaxWidth == 3

MaxKeySize == 2

\* [query, value] or [query, value, key] with query [B, T, E] and value and
\* key [B, S, E]
AttentionInputs(B, T, S, E) ==
    { <<(<<B, T, E>>), (<<B, S, E>>)>>,
      <<(<<B, T, E>>), (<<B, S, E>>), (<<B, S, E>>)>> }

InitAttention ==
    /\ loader = Opened(<<>>)
    /\ vocab = <<>>
    /\ inv_vocab = <<>>
    /\ unk_token = UNK
    /\ max_input_chars_per_word = DefaultMaxInputChars
    /\ frame = <<>>
    /\ max_sequence_length = 0
    /\ encode = NoEncode
    /\ full = <<>>
    /\ equation = NoEquation
    /\ \E B \in 1..MaxBatchSize, T \in 1..MaxSeq, S \in 1..MaxSeq,
          E \in 1..MaxWidth, num_heads \in 1..MaxHeads,
          key_size \in 1..MaxKeySize :
           \E value_size \in {None} \cup { Some(v) : v \in 0..MaxKeySize },
              output_shape \in {None, Some(<<>>), Some(<<MaxWidth + 1>>)},
              inputs \in AttentionInputs(B, T, S, E),
              attention_mask \in {None, Some(<<B, T, S>>)} :
               layers = [NoLayers EXCEPT !.attention =
                   [self |-> MultiHeadAttention_init(num_heads, key_size,
                                                     value_size, output_shape),
                    inputs |-> inputs,
                    attention_mask |-> attention_mask,
                    returned |-> None]]

NextAttention == MultiHeadAttentionBuild \/ MultiHeadAttentionCall

SpecAttention == InitAttention /\ [][NextAttention]_vars

--------------------------------------------------------------------------
(* C16 *)

AttentionReturned == layers.attention # None /\ layers.attention.returned # None

\* C16: for a query [B, T, E] and value and key [B, S, E], whatever the source
\* length, the head count and the head sizes, MultiHeadAttention.call returns
\* a tensor of shape [B, T, E], E the last dimension of the query, when
\* output_shape is not set (None, or empty); with output_shape set the last
\* dimension is the one it names instead.
C16_OutputShape ==
    AttentionReturned =>
        LET query == layers.attention.inputs[1]
            r == layers.attention.returned[1]
            output_shape == layers.attention.self._output_shape
        IN  /\ ~r.raised
            /\ output_shape \in {None, Some(<<>>)} => r.shape = query
            /\ output_shape \notin {None, Some(<<>>)} =>
                   r.shape = SubSeq(query, 1, 2) \o output_shape[1]

\* a call where source length, head count, key size and value size all
\* differ from the query's dimensions
C16_Witness ==
    /\ AttentionReturned
    /\ LET a == layers.attention
           query == a.inputs[1]
           value == a.inputs[2]
       IN  /\ query = <<2, 1, 3>>
           /\ value = <<2, 2, 3>>
           /\ a.self._num_heads = 2
           /\ a.self._key_size = 1
           /\ a.self._value_size = 2
           /\ a.self._output_shape = None
           /\ a.attention_mask # None
           /\ a.returned[1].attention_scores = <<2, 2, 1, 2>>

\* a layer made with value_size 0 and output_shape []: the value size is the
\* key size and the output keeps the query's last dimension
C16_WitnessFalsy ==
    /\ AttentionReturned
    /\ LET a == layers.attention
       IN  /\ a.inputs[1] = <<2, 1, 3>>
           /\ a.self._key_size = 2
           /\ a.self._value_size = 2
           /\ a.self._output_shape = Some(<<>>)
           /\ a.self.built[1]._value_dense[1].output_shape[3] = Some(2)
           /\ a.returned[1].shape = <<2, 1, 3>>

\* a layer made with output_shape [MaxWidth + 1]
C16_WitnessOutputShape ==
    /\ AttentionReturned
    /\ layers.attention.inputs[1] = <<2, 1, 3>>
    /\ layers.attention.self._output_shape = Some(<<MaxWidth + 1>>)
    /\ layers.attention.returned[1].shape = <<2, 1, MaxWidth + 1>>

--------------------------------------------------------------------------
(* Transformer *)

\* Transformer(num_attention_heads, intermediate_size, ..., output_range)
Transformer_init(num_attention_heads, intermediate_size, output_range) ==
    [_num_heads |-> num_attention_heads,
     _intermediate_size |-> intermediate_size,
     _output_range |-> output_range,
     built |-> None]

\* what build leaves when it raises (ValueError): nothing constructed
BuildRaised ==
    [raised |-> TRUE, _attention_head_size |-> 0, _attention_layer |-> None,
     _intermediate_dense |-> None, _output_dense |-> None]

\* TensorShape.is_compatible_with for shapes with every dimension known
is_compatible_with(expected, shape) == expected = shape

\* build without the test of hidden_size % num_heads
Transformer_build_NoCheck(self, input_shape) ==
    LET input_tensor_shape == input_shape[1]
        hidden_size == input_tensor_shape[3]
        head_size == hidden_size \div self._num_heads
        attention == MultiHeadAttention_init(self._num_heads, head_size, None, None)
    IN  IF Len(input_tensor_shape) # 3 THEN BuildRaised
        ELSE [raised |-> FALSE,
              _attention_head_size |-> head_size,
              _attention_layer |-> Some([attention EXCEPT !.built =
                  Some(MultiHeadAttention_build(attention,
                      <<input_tensor_shape, input_tensor_shape,
                        input_tensor_shape>>))]),
              _intermediate_dense |-> Some([output_shape |-> self._intermediate_size]),
              _output_dense |-> Some([output_shape |-> hidden_size])]

\* Transformer.build(input_shape), input_shape the shape of the data alone
\* (<<data>>) or the shapes of [data, mask]: the layers it constructs, or
\* raised (ValueError) and none constructed
Transformer_build(self, input_shape) ==
    LET input_tensor_shape == input_shape[1]
        batch_size == input_tensor_shape[1]
        sequence_length == input_tensor_shape[2]
        hidden_size == input_tensor_shape[3]
        head_size == hidden_size \div self._num_heads
        attention == MultiHeadAttention_init(self._num_heads, head_size, None, None)
    IN  IF Len(input_tensor_shape) # 3 THEN BuildRaised
        ELSE IF /\ Len(input_shape) = 2
                /\ ~is_compatible_with(
                       <<batch_size, sequence_length, sequence_length>>,
                       input_shape[2])
        THEN BuildRaised
        ELSE IF hidden_size % self._num_heads # 0 THEN BuildRaised
        ELSE [raised |-> FALSE,
              _attention_head_size |-> head_size,
              _attention_layer |-> Some([attention EXCEPT !.built =
                  Some(MultiHeadAttention_build(attention,
                      <<input_tensor_shape, input_tensor_shape,
                        input_tensor_shape>>))]),
              _intermediate_dense |-> Some([output_shape |-> self._intermediate_size]),
              _output_dense |-> Some([output_shape |-> hidden_size])]

\* a tensor as the expression that computes it: an operation (a layer of the
\* block, "add", a slice, or the name of an input) and its operands
Term(op, args) == [op |-> op, args |-> args]

\* the absent attention mask
NoneTerm == Term("None", <<>>)

\* x[:, 0:output_range, :]
Slice(x, output_range) ==
    Term("[:, 0:output_range, :]", <<x, Term("output_range", <<>>)>>)

\* x + y
Add(x, y) == Term("add", <<x, y>>)

\* call with the second residual taken from the block input
Transformer_call_RawResidual(self, inputs) ==
    LET input_tensor == inputs[1]
        attention_mask == IF Len(inputs) = 2 THEN inputs[2] ELSE NoneTerm
        attention_inputs == <<input_tensor, input_tensor>>
        attention_output1 ==
            Term("_attention_layer", attention_inputs \o <<attention_mask>>)
        attention_output2 == Term("_attention_dropout", <<attention_output1>>)
        attention_output ==
            Term("_attention_layer_norm", <<Add(input_tensor, attention_output2)>>)
        intermediate_output1 == Term("_intermediate_dense", <<attention_output>>)
        intermediate_output ==
            Term("_intermediate_activation_layer", <<intermediate_output1>>)
        layer_output1 == Term("_output_dense", <<intermediate_output>>)
        layer_output2 == Term("_output_dropout", <<layer_output1>>)
        layer_output3 == Term("tf.cast", <<layer_output2>>)
        layer_output ==
            Term("_output_layer_norm", <<Add(layer_output3, input_tensor)>>)
    IN  [raised |-> FALSE, layer_output |-> layer_output]

\* Transformer.call(inputs) on a built block, inputs the data alone
\* (<<input_tensor>>) or [input_tensor, attention_mask]: the expression of the
\* block output, or raised (TypeError: the absent mask is sliced)
Transformer_call(self, inputs) ==
    LET input_tensor == inputs[1]
        attention_mask0 == IF Len(inputs) = 2 THEN inputs[2] ELSE NoneTerm
        ranged == self._output_range # None /\ self._output_range[1] # 0
        target_tensor == IF ranged THEN Slice(input_tensor, self._output_range[1])
                         ELSE input_tensor
        attention_mask == IF ranged THEN Slice(attention_mask0, self._output_range[1])
                          ELSE attention_mask0
        attention_inputs == <<target_tensor, input_tensor>>
        attention_output1 ==
            Term("_attention_layer", attention_inputs \o <<attention_mask>>)
        attention_output2 == Term("_attention_dropout", <<attention_output1>>)
        attention_output ==
            Term("_attention_layer_norm", <<Add(target_tensor, attention_output2)>>)
        intermediate_output1 == Term("_intermediate_dense", <<attention_output>>)
        intermediate_output ==
            Term("_intermediate_activation_layer", <<intermediate_output1>>)
        layer_output1 == Term("_output_dense", <<intermediate_output>>)
        layer_output2 == Term("_output_dropout", <<layer_output1>>)
        layer_output3 == Term("tf.cast", <<layer_output2>>)
        layer_output ==
            Term("_output_layer_norm", <<Add(layer_output3, attention_output)>>)
    IN  IF ranged /\ attention_mask0 = NoneTerm
        THEN [raised |-> TRUE, layer_output |-> NoneTerm]
        ELSE [raised |-> FALSE, layer_output |-> layer_output]

\* Transformer.build on the input shapes of the state
TransformerBuild ==
    /\ layers.transformer # None
    /\ layers.transformer.self.built = None
    /\ layers' = [layers EXCEPT !.transformer.self.built =
           Some(Transformer_build(layers.transformer.self,
                                  layers.transformer.input_shape))]
    /\ LayersUnchanged

\* the inputs of the block as expressions: the data, and the mask when the
\* block was built with one
TransformerInputs ==
    IF Len(layers.transformer.input_shape) = 2
    THEN <<Term("input_tensor", <<>>), Term("attention_mask", <<>>)>>
    ELSE <<Term("input_tensor", <<>>)>>

\* Transformer.call on the built block
TransformerCall ==
    /\ layers.transformer # None
    /\ layers.transformer.self.built # None
    /\ ~layers.transformer.self.built[1].raised
    /\ layers.transformer.returned = None
    /\ layers' = [layers EXCEPT !.transformer.returned =
           Some(Transformer_call(layers.transformer.self, TransformerInputs))]
    /\ LayersUnchanged

MaxIntermediate == 2

\* the shapes a block is built on: [B, T, E] alone, [B, T, E] with a mask
\* [B, T, T] or [B, T, T + 1], and data of rank 2 or 4 with a mask
TransformerShapes(B, T, E) ==
    { <<(<<B, T, E>>)>>,
      <<(<<B, T, E>>), (<<B, T, T>>)>>,
      <<(<<B, T, E>>), (<<B, T, T + 1>>)>>,
      <<(<<B, E>>), (<<B, T, T>>)>>,
      <<(<<B, T, T, E>>), (<<B, T, T>>)>> }

\* a MultiHeadAttention layer to build directly, or a Transformer block
InitTransformer ==
    /\ loader = Opened(<<>>)
    /\ vocab = <<>>
    /\ inv_vocab = <<>>
    /\ unk_token = UNK
    /\ max_input_chars_per_word = DefaultMaxInputChars
    /\ frame = <<>>
    /\ max_sequence_length = 0
    /\ encode = NoEncode
    /\ full = <<>>
    /\ equation = NoEquation
    /\ \E B \in 1..MaxBatchSize, T \in 1..MaxSeq, E \in 1..MaxWidth,
          num_heads \in 1..MaxHeads :
           \/ \E key_size \in 1..MaxKeySize,
                 attention_mask \in {None, Some(<<B, T, T>>)} :
                  layers = [NoLayers EXCEPT !.attention =
                      [self |-> MultiHeadAttention_init(num_heads, key_size, None,
                                                     None),
                       inputs |-> <<(<<B, T, E>>), (<<B, T, E>>)>>,
                       attention_mask |-> attention_mask,
                       returned |-> None]]
           \/ \E intermediate_size \in 1..MaxIntermediate,
                 output_range \in {None, Some(0), Some(1)},
                 input_shape \in TransformerShapes(B, T, E) :
                  layers = [NoLayers EXCEPT !.transformer =
                      [self |-> Transformer_init(num_heads, intermediate_size,
                                                 output_range),
                       input_shape |-> input_shape,
                       returned |-> None]]

NextTransformer ==
    \/ MultiHeadAttentionBuild
    \/ MultiHeadAttentionCall
    \/ TransformerBuild
    \/ TransformerCall

SpecTransformer == InitTransformer /\ [][NextTransformer]_vars

--------------------------------------------------------------------------
(* C17 *)

AttentionBuilt == layers.attention # None /\ layers.attention.self.built # None

TransformerBuilt ==
    layers.transformer # None /\ layers.transformer.self.built # None

\* no projection layer constructed
NoProjections(built) ==
    /\ built._query_dense = None
    /\ built._key_dense = None
    /\ built._value_dense = None
    /\ built._output_dense = None

\* the four projection layers constructed
AllProjections(built) ==
    /\ built._query_dense # None
    /\ built._key_dense # None
    /\ built._value_dense # None
    /\ built._output_dense # None

\* model width and head count of the layer of the state
DirectIndivisible ==
    LET query == layers.attention.inputs[1]
    IN  query[Len(query)] % layers.attention.self._num_heads # 0

BlockIndivisible ==
    LET data == layers.transformer.input_shape[1]
    IN  Len(data) = 3 /\ data[3] % layers.transformer.self._num_heads # 0

\* C17 as stated: building the attention layer, directly or through
\* Transformer.build, with hidden_size % num_heads # 0 raises and constructs
\* no projection layers.
C17_BuildFails ==
    /\ AttentionBuilt /\ DirectIndivisible =>
           /\ layers.attention.self.built[1].raised
           /\ NoProjections(layers.attention.self.built[1])
    /\ TransformerBuilt /\ BlockIndivisible =>
           /\ layers.transformer.self.built[1].raised
           /\ layers.transformer.self.built[1]._attention_layer = None

\* C17: Transformer.build with hidden_size % num_heads # 0 raises and
\* constructs no attention layer, hence no projection layers; on a rank-3
\* input with a fitting mask or none it raises only then. MultiHeadAttention.build
\* called directly has no such test: it does not raise and constructs the four
\* projection layers whether or not the head count divides the width.
C17_BlockBuildFails ==
    /\ TransformerBuilt =>
           LET t == layers.transformer
               built == t.self.built[1]
               fitting == /\ Len(t.input_shape[1]) = 3
                          /\ Len(t.input_shape) = 2 =>
                                 t.input_shape[2] = <<t.input_shape[1][1],
                                                      t.input_shape[1][2],
                                                      t.input_shape[1][2]>>
           IN  /\ BlockIndivisible =>
                      built.raised /\ built._attention_layer = None
               /\ fitting =>
                      /\ built.raised <=> BlockIndivisible
                      /\ ~built.raised =>
                             /\ built._attention_layer # None
                             /\ AllProjections(built._attention_layer[1].built[1])
                             /\ built._attention_head_size * t.self._num_heads
                                    = t.input_shape[1][3]
    /\ AttentionBuilt =>
           /\ ~layers.attention.self.built[1].raised
           /\ AllProjections(layers.attention.self.built[1])

\* a block built on width 3 with 2 heads: raised
C17_Witness ==
    /\ TransformerBuilt
    /\ layers.transformer.input_shape = <<(<<2, 2, 3>>), (<<2, 2, 2>>)>>
    /\ layers.transformer.self._num_heads = 2
    /\ layers.transformer.self.built[1].raised

\* an attention layer built directly on width 3 with 2 heads, then called
C17_WitnessDirect ==
    /\ AttentionBuilt
    /\ DirectIndivisible
    /\ AllProjections(layers.attention.self.built[1])
    /\ layers.attention.returned # None
    /\ ~layers.attention.returned[1].raised

--------------------------------------------------------------------------
(* C18 *)

TransformerReturned ==
    layers.transformer # None /\ layers.transformer.returned # None

RECURSIVE Through(_)
\* the tensor under dropouts and casts
Through(term) ==
    IF term.op \in {"_attention_dropout", "_output_dropout", "_dropout", "tf.cast"}
    THEN Through(term.args[1])
    ELSE term

\* out is the block wired as the claim says, on query target, keys and
\* values source and the mask
Wired(out, target, source, mask) ==
    /\ out.op = "_output_layer_norm"
    /\ Len(out.args) = 1
    /\ out.args[1].op = "add"
    /\ LET normalized == out.args[1].args[2]
           contracted == Through(out.args[1].args[1])
       IN  /\ normalized.op = "_attention_layer_norm"
           /\ normalized.args[1].op = "add"
           /\ normalized.args[1].args[1] = target
           /\ Through(normalized.args[1].args[2])
                  = Term("_attention_layer", <<target, source, mask>>)
           /\ contracted = Term("_output_dense",
                  <<Term("_intermediate_activation_layer",
                         <<Term("_intermediate_dense", <<normalized>>)>>)>>)

\* the block's output_range is set
Ranged ==
    /\ layers.transformer.self._output_range # None
    /\ layers.transformer.self._output_range[1] # 0

\* the mask handed to the block, None when there is none
GivenMask ==
    IF Len(TransformerInputs) = 2 THEN TransformerInputs[2] ELSE NoneTerm

\* C18 as stated: Transformer.call is attention over (input, input, mask),
\* plus the block input, normalized; expand, activation, contract on that;
\* plus that normalized tensor, normalized again.
C18_Wiring ==
    TransformerReturned /\ ~layers.transformer.returned[1].raised =>
        Wired(layers.transformer.returned[1].layer_output,
              TransformerInputs[1], TransformerInputs[1], GivenMask)

\* C18: with output_range not set, Transformer.call is attention over
\* (input, input, mask), plus the block input, normalized; expand, activation,
\* contract on that normalized tensor; plus the same normalized tensor (not
\* the block input), normalized again, and that is the output. With
\* output_range set, the query of the attention and the first residual are
\* the first output_range positions of the input and the mask is cut to them;
\* without a mask that call raises.
C18_WiringByRange ==
    TransformerReturned =>
        LET r == layers.transformer.returned[1]
            input == TransformerInputs[1]
            range == layers.transformer.self._output_range
        IN  IF ~Ranged
            THEN ~r.raised /\ Wired(r.layer_output, input, input, GivenMask)
            ELSE IF GivenMask = NoneTerm THEN r.raised
            ELSE /\ ~r.raised
                 /\ Wired(r.layer_output, Slice(input, range[1]), input,
                          Slice(GivenMask, range[1]))

\* a block called on data and mask with output_range not set
C18_Witness ==
    /\ TransformerReturned
    /\ ~Ranged
    /\ GivenMask # NoneTerm
    /\ ~layers.transformer.returned[1].raised

\* a block called on data and mask with output_range 1
C18_WitnessRanged ==
    /\ TransformerReturned
    /\ Ranged
    /\ GivenMask # NoneTerm
    /\ ~layers.transformer.returned[1].raised

--------------------------------------------------------------------------
(* SelfAttentionMask *)

RECURSIVE size_from(_, _)
\* the number of elements of the axes k.. of a shape
size_from(shape, k) ==
    IF k > Len(shape) THEN 1 ELSE shape[k] * size_from(shape, k + 1)

RECURSIVE ravel_from(_, _, _)
\* the row-major position of an index, from axis k on
ravel_from(shape, idx, k) ==
    IF k > Len(shape) THEN 0
    ELSE idx[k] * size_from(shape, k + 1) + ravel_from(shape, idx, k + 1)

\* the index at a row-major position
unravel(shape, n) ==
    [k \in 1..Len(shape) |-> (n \div size_from(shape, k + 1)) % shape[k]]

\* tf.reshape(tensor, shape) for a shape of as many elements
reshape(tensor, shape) ==
    Tensor(shape, [idx \in Indices(shape) |->
                      tensor.data[unravel(tensor.shape, ravel_from(shape, idx, 1))]])

\* tf.ones(shape)
ones(shape) == Tensor(shape, [idx \in Indices(shape) |-> 1])

\* t1 * t2 with broadcasting (the shapes broadcast)
broadcast_multiply(t1, t2) ==
    LET shape == broadcast_shape(t1.shape, t2.shape)[1]
    IN  Tensor(shape, [idx \in Indices(shape) |->
                          t1.data[broadcast_index(t1.shape, idx)]
                              * t2.data[broadcast_index(t2.shape, idx)]])

\* SelfAttentionMask.call([from_tensor, to_mask]), from_tensor by its shape:
\* the mask [batch_size, from_seq_length, to_seq_length], or raised
\* (ValueError for a rank, an error of tf.reshape for a batch size)
\* the mask with the values of to_mask laid along the from axis
SelfAttentionMask_call_ByFromPosition(from_shape, to_mask) ==
    IF \/ Len(from_shape) \notin {2, 3}
       \/ Len(to_mask.shape) # 2
       \/ size_from(to_mask.shape, 1) # from_shape[1] * to_mask.shape[2]
    THEN [raised |-> TRUE, mask |-> Tensor(<<>>, <<>>)]
    ELSE LET batch_size == from_shape[1]
             from_seq_length == from_shape[2]
             to_seq_length == to_mask.shape[2]
             reshaped == reshape(to_mask, <<batch_size, to_seq_length, 1>>)
             broadcast_ones == ones(<<batch_size, 1, from_seq_length>>)
         IN  [raised |-> FALSE,
              mask |-> broadcast_multiply(broadcast_ones, reshaped)]

SelfAttentionMask_call(from_shape, to_mask) ==
    IF \/ Len(from_shape) \notin {2, 3}
       \/ Len(to_mask.shape) # 2
       \/ size_from(to_mask.shape, 1) # from_shape[1] * to_mask.shape[2]
    THEN [raised |-> TRUE, mask |-> Tensor(<<>>, <<>>)]
    ELSE LET batch_size == from_shape[1]
             from_seq_length == from_shape[2]
             to_seq_length == to_mask.shape[2]
             reshaped == reshape(to_mask, <<batch_size, 1, to_seq_length>>)
             broadcast_ones == ones(<<batch_size, from_seq_length, 1>>)
         IN  [raised |-> FALSE,
              mask |-> broadcast_multiply(broadcast_ones, reshaped)]

--------------------------------------------------------------------------
(* BertEncoder *)

\* embedding_width = 768
embedding_width == 768

\* name="transformer/layer_%d" % i for i in range(12)
TransformerLayerNames ==
    <<"transformer/layer_0", "transformer/layer_1", "transformer/layer_2",
      "transformer/layer_3", "transformer/layer_4", "transformer/layer_5",
      "transformer/layer_6", "transformer/layer_7", "transformer/layer_8",
      "transformer/layer_9", "transformer/layer_10", "transformer/layer_11">>

\* the sum of the three embeddings (lines 250-256)
Embeddings ==
    LET word_embeddings == Term("word_embeddings", <<Term("word_ids", <<>>)>>)
        position_embeddings == Term("position_embedding", <<word_embeddings>>)
        type_embeddings == Term("type_embeddings", <<Term("type_ids", <<>>)>>)
    IN  Term("_add", <<word_embeddings, position_embeddings, type_embeddings>>)

\* BertEncoder.call up to the loop: the embeddings summed, normalized and
\* dropped out are the data; the attention mask is made of data and mask
EncoderStart ==
    /\ layers.encoder # None
    /\ layers.encoder.pc = "start"
    /\ LET e == layers.encoder
           embeddings1 == Term("embeddings/layer_norm", <<Embeddings>>)
           embeddings == Term("_dropout", <<embeddings1>>)
           data_shape == e.word_ids \o <<embedding_width>>
           attention_mask == SelfAttentionMask_call(data_shape, e.mask)
       IN  layers' = [layers EXCEPT !.encoder =
               IF attention_mask.raised
               THEN [e EXCEPT !.pc = "raised"]
               ELSE [e EXCEPT !.pc = "for_layer",
                              !.data = embeddings,
                              !.attention_mask = Some(attention_mask.mask),
                              !.encoder_outputs = <<>>,
                              !.layer = 0]]
    /\ LayersUnchanged

\* one pass of the loop with every block called on the embeddings
EncoderLayer_FromEmbeddings ==
    /\ layers.encoder # None
    /\ layers.encoder.pc = "for_layer"
    /\ layers.encoder.layer < Len(TransformerLayerNames)
    /\ LET e == layers.encoder
           layer == TransformerLayerNames[e.layer + 1]
           inputs == [layer |-> layer,
                      data |-> Term("_dropout",
                                  <<Term("embeddings/layer_norm", <<Embeddings>>)>>),
                      attention_mask |-> e.attention_mask[1]]
           data == Term(layer, <<inputs.data, Term("attention_mask", <<>>)>>)
       IN  layers' = [layers EXCEPT !.encoder =
               [e EXCEPT !.data = data,
                         !.layer_inputs = Append(e.layer_inputs, inputs),
                         !.encoder_outputs = Append(e.encoder_outputs, data),
                         !.layer = e.layer + 1]]
    /\ LayersUnchanged

\* one pass of the loop: data = layer([data, attention_mask]);
\* encoder_outputs.append(data). layer_inputs keeps what the block was
\* called on.
EncoderLayer ==
    /\ layers.encoder # None
    /\ layers.encoder.pc = "for_layer"
    /\ layers.encoder.layer < Len(TransformerLayerNames)
    /\ LET e == layers.encoder
           layer == TransformerLayerNames[e.layer + 1]
           inputs == [layer |-> layer, data |-> e.data,
                      attention_mask |-> e.attention_mask[1]]
           data == Term(layer, <<inputs.data, Term("attention_mask", <<>>)>>)
       IN  layers' = [layers EXCEPT !.encoder =
               [e EXCEPT !.data = data,
                         !.layer_inputs = Append(e.layer_inputs, inputs),
                         !.encoder_outputs = Append(e.encoder_outputs, data),
                         !.layer = e.layer + 1]]
    /\ LayersUnchanged

\* after the loop: the first token of the last output, pooled, is returned
EncoderPool ==
    /\ layers.encoder # None
    /\ layers.encoder.pc = "for_layer"
    /\ layers.encoder.layer = Len(TransformerLayerNames)
    /\ LET e == layers.encoder
           last_output == e.encoder_outputs[Len(e.encoder_outputs)]
           cls_output == Term("pooler_transform", <<Term("_lambda", <<last_output>>)>>)
       IN  layers' = [layers EXCEPT !.encoder =
               [e EXCEPT !.pc = "returned", !.returned = Some(cls_output)]]
    /\ LayersUnchanged

\* a BertEncoder about to be called on word_ids, mask and type_ids [B, T]
NewEncoder(B, T, mask) ==
    [pc |-> "start", word_ids |-> <<B, T>>, mask |-> mask,
     data |-> NoneTerm, attention_mask |-> None, encoder_outputs |-> <<>>,
     layer_inputs |-> <<>>, layer |-> 0, returned |-> None]

InitEncoder ==
    /\ loader = Opened(<<>>)
    /\ vocab = <<>>
    /\ inv_vocab = <<>>
    /\ unk_token = UNK
    /\ max_input_chars_per_word = DefaultMaxInputChars
    /\ frame = <<>>
    /\ max_sequence_length = 0
    /\ encode = NoEncode
    /\ full = <<>>
    /\ equation = NoEquation
    /\ \E B \in 1..MaxBatchSize, T \in 1..MaxSeq :
           \E mask \in MasksOf(<<B, T>>) :
               layers = [NoLayers EXCEPT !.encoder = NewEncoder(B, T, mask)]

NextEncoder == EncoderStart \/ EncoderLayer \/ EncoderPool

SpecEncoder == InitEncoder /\ [][NextEncoder]_vars

--------------------------------------------------------------------------
(* C19 *)

\* the encoder is in or after its loop
EncoderLooping ==
    layers.encoder # None /\ layers.encoder.pc \in {"for_layer", "returned"}

\* C19: in BertEncoder.call the first block is called on the normalized
\* embeddings (through the dropout), every later block k on exactly the
\* output of block k-1, and every block on the same attention mask, the one
\* made before the loop, which is still the encoder's mask after each block.
C19_BlocksChained ==
    EncoderLooping =>
        LET e == layers.encoder
            made == SelfAttentionMask_call(e.word_ids \o <<embedding_width>>,
                                           e.mask).mask
        IN  /\ Len(e.layer_inputs) = e.layer
            /\ Len(e.encoder_outputs) = e.layer
            /\ e.attention_mask = Some(made)
            /\ \A k \in 1..Len(e.layer_inputs) :
                   /\ e.layer_inputs[k].layer = TransformerLayerNames[k]
                   /\ e.encoder_outputs[k].op = TransformerLayerNames[k]
                   /\ e.layer_inputs[k].attention_mask = made
                   /\ k = 1 =>
                          Through(e.layer_inputs[k].data)
                              = Term("embeddings/layer_norm", <<Embeddings>>)
                   /\ k > 1 =>
                          e.layer_inputs[k].data = e.encoder_outputs[k - 1]

\* the call returned after all twelve blocks, on a mask with a 0 and a 1
C19_Witness ==
    /\ layers.encoder # None
    /\ layers.encoder.pc = "returned"
    /\ Len(layers.encoder.layer_inputs) = 12
    /\ \E i, j \in Indices(layers.encoder.mask.shape) :
           layers.encoder.mask.data[i] = 0 /\ layers.encoder.mask.data[j] = 1

--------------------------------------------------------------------------
(* float32 values: a finite number, an infinity (v its sign) or NaN *)

Finite(n) == [kind |-> "finite", v |-> n]

Infinity == [kind |-> "inf", v |-> 1]

NaN == [kind |-> "nan", v |-> 0]

\* the sign of an integer
sign(n) == IF n > 0 THEN 1 ELSE IF n < 0 THEN -1 ELSE 0

\* x * y: NaN for a NaN operand and for 0 times an infinity
fmul(x, y) ==
    IF x.kind = "nan" \/ y.kind = "nan" THEN NaN
    ELSE IF x.kind = "finite" /\ y.kind = "finite" THEN Finite(x.v * y.v)
    ELSE IF sign(x.v) * sign(y.v) = 0 THEN NaN
    ELSE [kind |-> "inf", v |-> sign(x.v) * sign(y.v)]

\* x + y: NaN for a NaN operand and for infinities of opposite signs
fadd(x, y) ==
    IF x.kind = "nan" \/ y.kind = "nan" THEN NaN
    ELSE IF x.kind = "finite" /\ y.kind = "finite" THEN Finite(x.v + y.v)
    ELSE IF x.kind = "inf" /\ y.kind = "inf"
    THEN IF x.v = y.v THEN x ELSE NaN
    ELSE IF x.kind = "inf" THEN x
    ELSE y

--------------------------------------------------------------------------
(* OnDeviceEmbedding *)

\* one_hot counting the classes from 1
one_hot_FromOne(indices, depth) ==
    LET shape == indices.shape \o <<depth>>
    IN  Tensor(shape, [idx \in Indices(shape) |->
            IF indices.data[SubSeq(idx, 1, Len(idx) - 1)] = idx[Len(idx)] + 1
            THEN Finite(1) ELSE Finite(0)])

\* tf.one_hot(indices, depth, dtype=float32): a last axis of size depth, 1.0
\* at the index and 0.0 elsewhere (all 0.0 for an index outside [0, depth))
one_hot(indices, depth) ==
    LET shape == indices.shape \o <<depth>>
    IN  Tensor(shape, [idx \in Indices(shape) |->
            IF indices.data[SubSeq(idx, 1, Len(idx) - 1)] = idx[Len(idx)]
            THEN Finite(1) ELSE Finite(0)])

RECURSIVE matmul_sum(_, _, _, _, _)
\* the sum over k' < k of a[i, k'] * b[k', j]
matmul_sum(a, b, i, j, k) ==
    IF k = 0 THEN Finite(0)
    ELSE fadd(matmul_sum(a, b, i, j, k - 1),
              fmul(a.data[<<i, k - 1>>], b.data[<<k - 1, j>>]))

\* tf.matmul(a, b) for a [n, k] and b [k, m]
matmul(a, b) ==
    LET shape == <<a.shape[1], b.shape[2]>>
    IN  Tensor(shape, [idx \in Indices(shape) |->
                          matmul_sum(a, b, idx[1], idx[2], a.shape[2])])

\* tf.gather(params, indices) for params [v, w] and indices [n] within [0, v)
gather(params, indices) ==
    LET shape == indices.shape \o <<params.shape[2]>>
    IN  Tensor(shape, [idx \in Indices(shape) |->
                          params.data[<<indices.data[<<idx[1]>>], idx[2]>>]])

\* OnDeviceEmbedding.call(inputs) on a built layer
OnDeviceEmbedding_call(self, inputs) ==
    LET flat_inputs == reshape(inputs, <<size_from(inputs.shape, 1)>>)
        embeddings ==
            IF self._use_one_hot
            THEN matmul(one_hot(flat_inputs, self._vocab_size), self.embeddings)
            ELSE gather(self.embeddings, flat_inputs)
    IN  reshape(embeddings, inputs.shape \o <<self._embedding_width>>)

\* a call of OnDeviceEmbedding.call with the layer and the inputs of the state
OnDeviceEmbeddingCall ==
    /\ layers.embedding # None
    /\ layers.embedding.returned = None
    /\ layers' = [layers EXCEPT !.embedding.returned =
           Some(OnDeviceEmbedding_call(layers.embedding.self,
                                       layers.embedding.inputs))]
    /\ LayersUnchanged

MaxVocabSize == 2

MaxEmbeddingWidth == 2

MaxIds == 3

\* tables [vocab_size, embedding_width] of finite entries, a different one in
\* every cell
FiniteTables(vocab_size, width) ==
    { Tensor(<<vocab_size, width>>,
             [idx \in Indices(<<vocab_size, width>>) |->
                 Finite(scale * (idx[1] * width + idx[2]) + shift)]) :
        scale \in {-1, 1, 2}, shift \in {0, 1} }

\* the finite tables, and each with an infinity in one cell
Tables(vocab_size, width) ==
    FiniteTables(vocab_size, width)
        \cup { Tensor(table.shape, [table.data EXCEPT ![cell] = Infinity]) :
                   table \in FiniteTables(vocab_size, width),
                   cell \in Indices(<<vocab_size, width>>) }

\* the shapes of rank 1 and 2 of at most MaxIds elements
IdShapes ==
    { <<n>> : n \in 1..MaxIds }
        \cup { shape \in (1..MaxIds) \X (1..MaxIds) : shape[1] * shape[2] <= MaxIds }

\* the inputs of a shape with ids in [0, vocab_size)
IdTensors(shape, vocab_size) ==
    { Tensor(shape, data) : data \in [Indices(shape) -> 0..(vocab_size - 1)] }

InitEmbedding ==
    /\ loader = Opened(<<>>)
    /\ vocab = <<>>
    /\ inv_vocab = <<>>
    /\ unk_token = UNK
    /\ max_input_chars_per_word = DefaultMaxInputChars
    /\ frame = <<>>
    /\ max_sequence_length = 0
    /\ encode = NoEncode
    /\ full = <<>>
    /\ equation = NoEquation
    /\ \E vocab_size \in 1..MaxVocabSize, width \in 1..MaxEmbeddingWidth,
          use_one_hot \in BOOLEAN, shape \in IdShapes :
           \E table \in Tables(vocab_size, width),
              inputs \in IdTensors(shape, vocab_size) :
               layers = [NoLayers EXCEPT !.embedding =
                   [self |-> [_vocab_size |-> vocab_size,
                              _embedding_width |-> width,
                              _use_one_hot |-> use_one_hot,
                              embeddings |-> table],
                    inputs |-> inputs,
                    returned |-> None]]

NextEmbedding == OnDeviceEmbeddingCall

SpecEmbedding == InitEmbedding /\ [][NextEmbedding]_vars

--------------------------------------------------------------------------
(* C20 *)

EmbeddingReturned ==
    layers.embedding # None /\ layers.embedding.returned # None

\* the layer of the state with use_one_hot the other way
OtherWay ==
    [layers.embedding.self EXCEPT
        !._use_one_hot = ~layers.embedding.self._use_one_hot]

\* the returned tensor holds row table[id] at position pos, column w
RowAt(pos, w) ==
    layers.embedding.returned[1].data[pos \o <<w>>]
        = layers.embedding.self.embeddings.data[
              <<layers.embedding.inputs.data[pos], w>>]

\* every entry of the table is finite
FiniteTable ==
    \A cell \in Indices(layers.embedding.self.embeddings.shape) :
        layers.embedding.self.embeddings.data[cell].kind = "finite"

\* C20 as stated: for every table and every input of ids in [0, vocab_size),
\* OnDeviceEmbedding.call returns the same tensor with use_one_hot set as
\* without: row table[id] at every position, in shape input shape ++
\* [embedding_width].
C20_OneHotIsGather ==
    EmbeddingReturned =>
        LET e == layers.embedding
            r == e.returned[1]
        IN  /\ r.shape = e.inputs.shape \o <<e.self._embedding_width>>
            /\ \A pos \in Indices(e.inputs.shape) :
                   \A w \in 0..(e.self._embedding_width - 1) : RowAt(pos, w)
            /\ r = OnDeviceEmbedding_call(OtherWay, e.inputs)

\* C20: for every input of ids in [0, vocab_size) the output has shape input
\* shape ++ [embedding_width]; by gather it holds row table[id] at every
\* position; for a table of finite entries the one-hot product returns the
\* same tensor as the gather. (An entry that is not finite turns its column
\* of the one-hot product into NaN at the positions of the other ids.)
C20_OneHotIsGatherFinite ==
    EmbeddingReturned =>
        LET e == layers.embedding
            r == e.returned[1]
        IN  /\ r.shape = e.inputs.shape \o <<e.self._embedding_width>>
            /\ ~e.self._use_one_hot \/ FiniteTable =>
                   \A pos \in Indices(e.inputs.shape) :
                       \A w \in 0..(e.self._embedding_width - 1) : RowAt(pos, w)
            /\ FiniteTable => r = OnDeviceEmbedding_call(OtherWay, e.inputs)

\* a one-hot call on a [1, 3] input holding two different ids, width 2, on a
\* finite table
C20_Witness ==
    /\ EmbeddingReturned
    /\ FiniteTable
    /\ layers.embedding.self._use_one_hot
    /\ layers.embedding.self._embedding_width = 2
    /\ layers.embedding.inputs.shape = <<1, 3>>
    /\ layers.embedding.inputs.data[<<0, 0>>] # layers.embedding.inputs.data[<<0, 2>>]

\* the same by gather
C20_WitnessGather ==
    /\ EmbeddingReturned
    /\ FiniteTable
    /\ ~layers.embedding.self._use_one_hot
    /\ layers.embedding.inputs.shape = <<3>>
    /\ layers.embedding.inputs.data[<<0>>] # layers.embedding.inputs.data[<<1>>]

\* a one-hot call that returns NaN where the gather returns a finite entry
C20_WitnessNaN ==
    /\ EmbeddingReturned
    /\ layers.embedding.self._use_one_hot
    /\ \E pos \in Indices(layers.embedding.inputs.shape) :
           /\ layers.embedding.returned[1].data[pos \o <<0>>] = NaN
           /\ layers.embedding.self.embeddings.data[
                  <<layers.embedding.inputs.data[pos], 0>>].kind = "finite"

--------------------------------------------------------------------------
(* PositionEmbedding *)

\* PositionEmbedding(use_dynamic_slicing, max_sequence_length=max_length),
\* None for a max_sequence_length not given: the layer, or raised (ValueError)
PositionEmbedding_init(use_dynamic_slicing, max_length) ==
    [raised |-> use_dynamic_slicing /\ max_length = None,
     _max_sequence_length |-> max_length,
     _use_dynamic_slicing |-> use_dynamic_slicing,
     built |-> None]

\* the weight add_weight makes: [rows, width], a different value in every cell
position_weight(rows, width) ==
    Tensor(<<rows, width>>,
           [idx \in Indices(<<rows, width>>) |-> idx[1] * width + idx[2] + 1])

\* PositionEmbedding.build(input_shape), a dimension of input_shape None when
\* unknown: the table, or raised (ValueError) and no table
PositionEmbedding_build(self, input_shape) ==
    LET dimension_list == input_shape
        seq_length == dimension_list[2]
        width == dimension_list[3]
        weight_sequence_length ==
            IF self._max_sequence_length # None THEN self._max_sequence_length[1]
            ELSE seq_length[1]
    IN  IF Len(dimension_list) # 3
        THEN [raised |-> TRUE, _position_embeddings |-> None]
        ELSE IF ~self._use_dynamic_slicing /\ seq_length = None
        THEN [raised |-> TRUE, _position_embeddings |-> None]
        ELSE IF ~self._use_dynamic_slicing /\ self._max_sequence_length # None
        THEN [raised |-> TRUE, _position_embeddings |-> None]
        ELSE [raised |-> FALSE,
              _position_embeddings |->
                  Some(position_weight(weight_sequence_length, width[1]))]

\* the last n rows of the table
slice_rows_Last(table, n) ==
    LET rows == IF n < table.shape[1] THEN n ELSE table.shape[1]
        shape == <<rows, table.shape[2]>>
    IN  Tensor(shape, [idx \in Indices(shape) |->
                          table.data[<<idx[1] + table.shape[1] - rows, idx[2]>>]])

\* table[:n, :]
slice_rows(table, n) ==
    LET rows == IF n < table.shape[1] THEN n ELSE table.shape[1]
        shape == <<rows, table.shape[2]>>
    IN  Tensor(shape, [idx \in Indices(shape) |-> table.data[idx]])

\* tf.broadcast_to(tensor, shape), or raised when the tensor's shape does not
\* broadcast to shape
broadcast_to(tensor, shape) ==
    IF broadcast_shape(tensor.shape, shape) # Some(shape)
    THEN [raised |-> TRUE, output |-> Tensor(<<>>, <<>>)]
    ELSE [raised |-> FALSE,
          output |-> Tensor(shape, [idx \in Indices(shape) |->
                        tensor.data[broadcast_index(tensor.shape, idx)]])]

\* PositionEmbedding.call(inputs) on a built layer, inputs by their shape:
\* the output, or raised (ValueError for the rank, an error of broadcast_to)
PositionEmbedding_call(self, input_shape) ==
    LET table == self.built[1]._position_embeddings[1]
        position_embeddings ==
            IF self._use_dynamic_slicing THEN slice_rows(table, input_shape[2])
            ELSE table
    IN  IF Len(input_shape) # 3
        THEN [raised |-> TRUE, output |-> Tensor(<<>>, <<>>)]
        ELSE broadcast_to(position_embeddings, input_shape)

\* PositionEmbedding.build on the input shape the layer is first given
PositionEmbeddingBuild ==
    /\ layers.position # None
    /\ ~layers.position.self.raised
    /\ layers.position.self.built = None
    /\ layers' = [layers EXCEPT !.position.self.built =
           Some(PositionEmbedding_build(layers.position.self,
                                        layers.position.input_shape))]
    /\ LayersUnchanged

\* PositionEmbedding.call on the built layer
PositionEmbeddingCall ==
    /\ layers.position # None
    /\ layers.position.self.built # None
    /\ ~layers.position.self.built[1].raised
    /\ layers.position.returned = None
    /\ layers' = [layers EXCEPT !.position.returned =
           Some(PositionEmbedding_call(layers.position.self,
                                       layers.position.inputs))]
    /\ LayersUnchanged

\* the shapes a layer is built on: [B, seq, width] with seq known or not, and
\* shapes of rank 2 and 4
PositionShapes ==
    { <<Some(B), seq, Some(width)>> :
          B \in 1..MaxBatchSize,
          seq \in {None} \cup { Some(n) : n \in 1..MaxSeq },
          width \in 1..MaxEmbeddingWidth }
        \cup { <<Some(1), Some(1)>>, <<Some(1), Some(1), Some(1), Some(1)>> }

\* the shapes of the inputs of a call on a layer built on input_shape: the
\* known dimensions of input_shape, any length where it is unknown, and any
\* other length (the layer is built once and called again)
PositionInputs(input_shape) ==
    IF Len(input_shape) # 3 THEN { <<1, 1, 1>> }
    ELSE { <<input_shape[1][1], n, input_shape[3][1]>> : n \in 1..(MaxSeq + 1) }

InitPosition ==
    /\ loader = Opened(<<>>)
    /\ vocab = <<>>
    /\ inv_vocab = <<>>
    /\ unk_token = UNK
    /\ max_input_chars_per_word = DefaultMaxInputChars
    /\ frame = <<>>
    /\ max_sequence_length = 0
    /\ encode = NoEncode
    /\ full = <<>>
    /\ equation = NoEquation
    /\ \E use_dynamic_slicing \in BOOLEAN,
          max_length \in {None} \cup { Some(n) : n \in 1..MaxSeq },
          input_shape \in PositionShapes :
           \E inputs \in PositionInputs(input_shape) :
               layers = [NoLayers EXCEPT !.position =
                   [self |-> PositionEmbedding_init(use_dynamic_slicing,
                                                    max_length),
                    input_shape |-> input_shape,
                    inputs |-> inputs,
                    returned |-> None]]

NextPosition == PositionEmbeddingBuild \/ PositionEmbeddingCall

SpecPosition == InitPosition /\ [][NextPosition]_vars

--------------------------------------------------------------------------
(* C21 *)

PositionBuilt == layers.position # None /\ layers.position.self.built # None

PositionReturned == layers.position # None /\ layers.position.returned # None

\* the table of the built layer
PositionTable == layers.position.self.built[1]._position_embeddings[1]

\* the output holds row p of the table at [b, p, :] for every b and p
RowsOfTable(output) ==
    \A idx \in Indices(output.shape) :
        output.data[idx] = PositionTable.data[<<idx[2], idx[3]>>]

\* the output holds row 0 of the table at every [b, p, :]
RowZeroEverywhere(output) ==
    \A idx \in Indices(output.shape) :
        output.data[idx] = PositionTable.data[<<0, idx[3]>>]

\* C21 as stated: in fixed-length mode build fails when the sequence length
\* is unknown and otherwise the table has exactly the input sequence length;
\* in dynamic-slicing mode the table has max_sequence_length rows and each
\* call returns output[b, p, :] = table[p, :].
C21_TableAndRows ==
    /\ PositionBuilt /\ Len(layers.position.input_shape) = 3 =>
           LET p == layers.position
               built == p.self.built[1]
               seq_length == p.input_shape[2]
           IN  IF ~p.self._use_dynamic_slicing
               THEN IF seq_length = None THEN built.raised
                    ELSE /\ ~built.raised
                         /\ PositionTable.shape[1] = seq_length[1]
               ELSE /\ ~built.raised
                    /\ PositionTable.shape[1] = p.self._max_sequence_length[1]
    /\ PositionReturned /\ layers.position.self._use_dynamic_slicing =>
           LET r == layers.position.returned[1]
           IN  /\ ~r.raised
               /\ r.output.shape = layers.position.inputs
               /\ RowsOfTable(r.output)

\* C21: in fixed-length mode build fails when the sequence length is unknown
\* or max_sequence_length is given, and otherwise the table has exactly the
\* input sequence length; in dynamic-slicing mode the table has
\* max_sequence_length rows. A call on inputs [B, n, width] returns
\* output[b, p, :] = table[p, :] when n is at most the rows of the table
\* (dynamic slicing) or equal to them (fixed length); on other lengths it
\* raises, except that a table of one row is broadcast over the positions.
C21_TableAndRowsWithinTable ==
    /\ PositionBuilt /\ Len(layers.position.input_shape) = 3 =>
           LET p == layers.position
               built == p.self.built[1]
               seq_length == p.input_shape[2]
               width == p.input_shape[3][1]
           IN  IF ~p.self._use_dynamic_slicing
               THEN /\ built.raised <=>
                           seq_length = None \/ p.self._max_sequence_length # None
                    /\ ~built.raised =>
                           PositionTable.shape = <<seq_length[1], width>>
               ELSE /\ ~built.raised
                    /\ PositionTable.shape
                           = <<p.self._max_sequence_length[1], width>>
    /\ PositionReturned =>
           LET p == layers.position
               r == p.returned[1]
               n == p.inputs[2]
               rows == PositionTable.shape[1]
               within == IF p.self._use_dynamic_slicing THEN n <= rows
                         ELSE n = rows
           IN  IF within
               THEN /\ ~r.raised
                    /\ r.output.shape = p.inputs
                    /\ RowsOfTable(r.output)
               ELSE IF rows = 1
               THEN ~r.raised /\ RowZeroEverywhere(r.output)
               ELSE r.raised

\* a dynamic-slicing layer of 2 rows, built on an unknown sequence length,
\* called on a batch of 2 of length 1
C21_Witness ==
    /\ PositionReturned
    /\ layers.position.self._use_dynamic_slicing
    /\ layers.position.input_shape[2] = None
    /\ PositionTable.shape[1] = 2
    /\ layers.position.inputs[1] = 2
    /\ layers.position.inputs[2] = 1
    /\ ~layers.position.returned[1].raised

\* a fixed-length layer whose build failed on an unknown sequence length
C21_WitnessFixedUnknown ==
    /\ PositionBuilt
    /\ ~layers.position.self._use_dynamic_slicing
    /\ Len(layers.position.input_shape) = 3
    /\ layers.position.input_shape[2] = None
    /\ layers.position.self.built[1].raised

\* a fixed-length layer with max_sequence_length given whose build failed on
\* a known sequence length
C21_WitnessFixedMax ==
    /\ PositionBuilt
    /\ ~layers.position.self._use_dynamic_slicing
    /\ Len(layers.position.input_shape) = 3
    /\ layers.position.input_shape[2] # None
    /\ layers.position.self.built[1].raised

\* a dynamic-slicing call on inputs longer than the table of 2 rows: raised
C21_WitnessBeyondTable ==
    /\ PositionReturned
    /\ layers.position.self._use_dynamic_slicing
    /\ layers.position.returned[1].raised

--------------------------------------------------------------------------
(* BasicTokenizer._run_split_on_punc, statement by statement *)

\* chars = list(text); i = 0; start_new_word = True; output = []
NewSplit(text) ==
    [pc |-> "while", chars |-> text, i |-> 0, start_new_word |-> TRUE,
     output |-> <<>>, returned |-> None]

\* output with char appended to its last list
AppendToLast(output, char) ==
    [output EXCEPT ![Len(output)] = Append(output[Len(output)], char)]

\* one pass of the loop with start_new_word left as it was after a
\* punctuation character
SplitStep_NoReset ==
    /\ layers.split # None
    /\ layers.split.pc = "while"
    /\ layers.split.i < Len(layers.split.chars)
    /\ LET s == layers.split
           char == s.chars[s.i + 1]
           opened == IF s.start_new_word THEN Append(s.output, <<>>)
                     ELSE s.output
       IN  layers' = [layers EXCEPT !.split =
               IF _is_punctuation(char)
               THEN [s EXCEPT !.output = Append(s.output, <<char>>),
                              !.start_new_word = FALSE,
                              !.i = s.i + 1]
               ELSE [s EXCEPT !.output = AppendToLast(opened, char),
                              !.start_new_word = FALSE,
                              !.i = s.i + 1]]
    /\ LayersUnchanged

\* one pass of the loop while i < len(chars)
SplitStep ==
    /\ layers.split # None
    /\ layers.split.pc = "while"
    /\ layers.split.i < Len(layers.split.chars)
    /\ LET s == layers.split
           char == s.chars[s.i + 1]
           opened == IF s.start_new_word THEN Append(s.output, <<>>)
                     ELSE s.output
       IN  layers' = [layers EXCEPT !.split =
               IF _is_punctuation(char)
               THEN [s EXCEPT !.output = Append(s.output, <<char>>),
                              !.start_new_word = TRUE,
                              !.i = s.i + 1]
               ELSE [s EXCEPT !.output = AppendToLast(opened, char),
                              !.start_new_word = FALSE,
                              !.i = s.i + 1]]
    /\ LayersUnchanged

\* return ["".join(x) for x in output]
SplitReturn ==
    /\ layers.split # None
    /\ layers.split.pc = "while"
    /\ ~(layers.split.i < Len(layers.split.chars))
    /\ layers' = [layers EXCEPT !.split.pc = "returned",
                               !.split.returned = Some(layers.split.output)]
    /\ LayersUnchanged

MaxSplitLen == 4

\* letters, punctuation by each of the four ASCII ranges ($ = ^ ~, none of
\* category P) and punctuation by category alone (U+00BF)
SplitAlphabet == {"a", "b", "$", "=", "^", "~", "U+00BF"}

InitSplit ==
    /\ loader = Opened(<<>>)
    /\ vocab = <<>>
    /\ inv_vocab = <<>>
    /\ unk_token = UNK
    /\ max_input_chars_per_word = DefaultMaxInputChars
    /\ frame = <<>>
    /\ max_sequence_length = 0
    /\ encode = NoEncode
    /\ full = <<>>
    /\ equation = NoEquation
    /\ \E text \in SeqsUpTo(SplitAlphabet, MaxSplitLen) :
           layers = [NoLayers EXCEPT !.split = NewSplit(text)]

NextSplit == SplitStep \/ SplitReturn

SpecSplit == InitSplit /\ [][NextSplit]_vars

--------------------------------------------------------------------------
(* C22 *)

\* punctuation as the claim words it: code points 33-47, 58-64, 91-96,
\* 123-126, or a general category P*
ClaimedPunctuation(char) ==
    \/ ord(char) \in (33..47) \cup (58..64) \cup (91..96) \cup (123..126)
    \/ category(char) \in {"Pc", "Pd", "Ps", "Pe", "Pi", "Pf", "Po"}

\* C22: the pieces _run_split_on_punc returns, concatenated in order, are the
\* token; every piece is one punctuation character or a run of characters
\* none of which is punctuation, and no two such runs are neighbours (every
\* punctuation character is a piece of its own, every maximal run of other
\* characters is one piece). The pieces are those of the tokenizer's
\* _run_split_on_punc; while the loop runs the pieces so far are the split
\* of chars[0:i].
C22_PunctuationPieces ==
    layers.split # None =>
        LET s == layers.split
            pieces == s.output
            run(piece) == \A k \in 1..Len(piece) : ~ClaimedPunctuation(piece[k])
        IN  /\ Flatten(pieces) = SubSeq(s.chars, 1, s.i)
            /\ \A j \in 1..Len(pieces) :
                   /\ pieces[j] # <<>>
                   /\ \/ Len(pieces[j]) = 1 /\ ClaimedPunctuation(pieces[j][1])
                      \/ run(pieces[j])
                   /\ j > 1 => ~(run(pieces[j - 1]) /\ run(pieces[j]))
            /\ s.returned # None =>
                   /\ s.i = Len(s.chars)
                   /\ s.returned[1] = pieces
                   /\ s.returned[1] = _run_split_on_punc(s.chars)

\* "a$b~" returned as a, $, b, ~
C22_Witness ==
    /\ layers.split # None
    /\ layers.split.chars = <<"a", "$", "b", "~">>
    /\ layers.split.returned = Some(<< <<"a">>, <<"$">>, <<"b">>, <<"~">> >>)

\* "ab" between two punctuation characters of category P and of range 91-96
C22_WitnessRun ==
    /\ layers.split # None
    /\ layers.split.chars = <<"U+00BF", "a", "b", "^">>
    /\ layers.split.returned = Some(<< <<"U+00BF">>, <<"a", "b">>, <<"^">> >>)

--------------------------------------------------------------------------
(* C23 *)

\* the symbols of the batch axes, in axis order
BatchSymbols ==
    [k \in 1..Cardinality(BatchAxes) |-> TargetNotation[Sorted(BatchAxes)[k] + 1]]

\* the target's and the source's symbols of the axes of attn_axes, in the
\* order of attn_axes
TargetAttendedSymbols ==
    [k \in 1..Len(layers.attention_equation.attn_axes) |->
        TargetNotation[layers.attention_equation.attn_axes[k] + 1]]

SourceAttendedSymbols ==
    [k \in 1..Len(layers.attention_equation.attn_axes) |->
        SourceNotation[layers.attention_equation.attn_axes[k] + 1]]

\* the symbols an einsum equation sums over: those of its operands that its
\* output does not have
SummedSymbols(eq) ==
    (Range(InputSubscripts(eq)) \cup Range(KernelSubscripts(eq)))
        \ Range(OutputSubscripts(eq))

\* the two equations and the rank agree as the claim describes
EquationsConsistent ==
    /\ ProductNotation =
           BatchSymbols \o TargetAttendedSymbols \o SourceAttendedSymbols
    /\ TargetNotation[AttnRank] \notin Range(ProductNotation)
    /\ TargetNotation[AttnRank] \in SummedSymbols(AttnReturned.dot_product_equation)
    /\ InputSubscripts(AttnReturned.combine_equation) = ProductNotation
    /\ KernelSubscripts(AttnReturned.combine_equation) = SourceNotation
    /\ OutputSubscripts(AttnReturned.combine_equation) = TargetNotation
    /\ SummedSymbols(AttnReturned.combine_equation) = Range(SourceAttendedSymbols)
    /\ Cardinality(Range(SourceAttendedSymbols))
           = Len(layers.attention_equation.attn_axes)
    /\ AttnReturned.attn_scores_rank = Len(ProductNotation)

\* C23 as stated: for every rank and every tuple of axes out of [1, rank), the
\* dot-product equation takes (source, target) to the batch symbols, then the
\* target attended symbols, then the source attended symbols, the trailing
\* symbol summed away; the combination equation takes that product notation
\* and the source notation to the target notation, summing exactly the source
\* attended symbols; attn_scores_rank is the product notation's length.
C23_EquationsConsistent ==
    layers.attention_equation.returned # None => EquationsConsistent

\* for attended axes that leave out the trailing axis the equations are
\* consistent in all these respects
C23_EquationsConsistentBeforeChannels ==
    (layers.attention_equation.returned # None /\ AttnRank - 1 \notin AttnAxes)
        => EquationsConsistent

\* [B, T, N, H] with axis 1 attended: "aecd,abcd->acbe" and "acbe,aecd->abcd"
C23_Witness ==
    /\ layers.attention_equation.returned # None
    /\ AttnRank = 4
    /\ layers.attention_equation.attn_axes = <<1>>
    /\ AttnReturned.combine_equation =
           <<"a", "c", "b", "e", ",", "a", "e", "c", "d", "-", ">",
             "a", "b", "c", "d">>
    /\ AttnReturned.attn_scores_rank = 4

\* rank 3 with the trailing axis attended: "abc,abc->abcc", the trailing
\* symbol twice in the product notation
C23_WitnessTrailing ==
    /\ layers.attention_equation.returned # None
    /\ AttnRank = 3
    /\ layers.attention_equation.attn_axes = <<2>>
    /\ ProductNotation = <<"a", "b", "c", "c">>

--------------------------------------------------------------------------
(* MultiHeadAttention._build_attention with attention axes given *)

\* the attention_axes argument of MultiHeadAttention.__init__: None, a tuple
\* ([axes |-> tuple]) or one axis ([axis |-> number], not Sized), which
\* becomes the tuple of that axis
attention_axes_of(attention_axes) ==
    IF attention_axes = None THEN None
    ELSE IF "axis" \in DOMAIN attention_axes[1]
    THEN Some(<<attention_axes[1].axis>>)
    ELSE Some(attention_axes[1].axes)

\* a call of _build_attention(qkv_rank) on the layer of the state
BuildAttention ==
    /\ layers.build_attention # None
    /\ layers.build_attention.built = None
    /\ layers' = [layers EXCEPT !.build_attention.built =
           Some(_build_attention(layers.build_attention.self,
                                 layers.build_attention.qkv_rank))]
    /\ LayersUnchanged

\* None, every tuple of distinct axes out of [1, qkv_rank) and every single
\* axis of that range
AttentionAxesArguments(qkv_rank) ==
    {None}
    \cup { Some([axes |-> axes]) : axes \in AxesTuples(qkv_rank) }
    \cup { Some([axis |-> axis]) : axis \in 1..(qkv_rank - 1) }

InitBuildAttention ==
    /\ loader = Opened(<<>>)
    /\ vocab = <<>>
    /\ inv_vocab = <<>>
    /\ unk_token = UNK
    /\ max_input_chars_per_word = DefaultMaxInputChars
    /\ frame = <<>>
    /\ max_sequence_length = 0
    /\ encode = NoEncode
    /\ full = <<>>
    /\ equation = NoEquation
    /\ \E qkv_rank \in 1..MaxRank :
           \E attention_axes \in AttentionAxesArguments(qkv_rank) :
               layers = [NoLayers EXCEPT !.build_attention =
                   [self |-> [MultiHeadAttention_init(1, 1, None, None) EXCEPT
                                 !._attention_axes =
                                     attention_axes_of(attention_axes)],
                    argument |-> attention_axes,
                    qkv_rank |-> qkv_rank,
                    built |-> None]]

NextBuildAttention == BuildAttention

SpecBuildAttention == InitBuildAttention /\ [][NextBuildAttention]_vars

--------------------------------------------------------------------------
(* C24 *)

BuiltAttention == layers.build_attention.built[1]

\* the 0-based positions of the score tensor MaskedSoftmax normalizes over
NormalizationAxes == Range(BuiltAttention._masked_softmax.normalization_axes)

\* the output of the dot-product equation: the axes of the score tensor
ScoreNotation == OutputSubscripts(BuiltAttention._dot_product_equation)

\* the symbols the source (key) has at the attended axes
KeyAttendedSymbols ==
    { InputSubscripts(BuiltAttention._dot_product_equation)[axis + 1] :
          axis \in Range(BuiltAttention._attention_axes) }

\* the normalization axes are the positions of the key's attended symbols and
\* no position of a symbol of the query (batch, head, query attended)
NormalizesOverKeys ==
    /\ Len(BuiltAttention._masked_softmax.normalization_axes)
           = Len(BuiltAttention._attention_axes)
    /\ NormalizationAxes =
           { p \in 0..(Len(ScoreNotation) - 1) :
                 ScoreNotation[p + 1] \in KeyAttendedSymbols }
    /\ \A p \in NormalizationAxes :
           ScoreNotation[p + 1] \notin
               Range(KernelSubscripts(BuiltAttention._dot_product_equation))

\* C24 as stated: for every qkv_rank and attention axes, the normalization
\* axes given to MaskedSoftmax are exactly the positions of the key's
\* attended symbols in the dot-product equation's output, none of them a
\* batch, head or query attended axis.
C24_NormalizesOverKeys ==
    layers.build_attention # None /\ layers.build_attention.built # None
        => NormalizesOverKeys

\* for attention axes that leave out the trailing axis the normalization axes
\* are the positions of the key's attended symbols
C24_NormalizesOverKeysBeforeChannels ==
    (/\ layers.build_attention # None
     /\ layers.build_attention.built # None
     /\ layers.build_attention.qkv_rank - 1
            \notin Range(BuiltAttention._attention_axes))
        => NormalizesOverKeys

\* rank 4, default axes (1,): scores "acbe" normalized over axis 3
C24_Witness ==
    /\ layers.build_attention # None
    /\ layers.build_attention.built # None
    /\ layers.build_attention.qkv_rank = 4
    /\ layers.build_attention.argument = None
    /\ ScoreNotation = <<"a", "c", "b", "e">>
    /\ NormalizationAxes = {3}

\* rank 5, axes (1, 2) given: scores "adbcfg" normalized over axes 4 and 5
C24_WitnessGiven ==
    /\ layers.build_attention # None
    /\ layers.build_attention.built # None
    /\ layers.build_attention.qkv_rank = 5
    /\ BuiltAttention._attention_axes = <<1, 2>>
    /\ ScoreNotation = <<"a", "d", "b", "c", "f", "g">>
    /\ NormalizationAxes = {4, 5}

\* rank 3, the single axis 2 given: scores "abcc", normalized over axis 3,
\* whose symbol is the query's too
C24_WitnessTrailing ==
    /\ layers.build_attention # None
    /\ layers.build_attention.built # None
    /\ layers.build_attention.qkv_rank = 3
    /\ layers.build_attention.argument = Some([axis |-> 2])
    /\ ScoreNotation = <<"a", "b", "c", "c">>
    /\ NormalizationAxes = {3}

--------------------------------------------------------------------------
(* C25 *)

\* the mask MaskedSoftmax.call holds when it computes the adder, for a mask
\* given with a rank of at most the scores'
MaskExpanded ==
    /\ SoftmaxReturned
    /\ layers.softmax.mask # None
    /\ Len(layers.softmax.mask[1].shape) <= Len(layers.softmax.scores.shape)
    /\ layers.softmax.returned[1].mask # None

\* C25: for a mask of a rank of at most the scores', MaskedSoftmax.call puts
\* rank(scores) - rank(mask) axes of size 1 into the mask's shape at the
\* expansion axis; the mask then has the rank of the scores, the axes before
\* the expansion axis stay where they were and the others move to the end,
\* each of size 1 or of the size of the score axis it stands at, and the
\* value at a position is the given mask's value with the new axes left out.
C25_MaskExpansion ==
    (SoftmaxReturned /\ layers.softmax.mask # None
        /\ Len(layers.softmax.mask[1].shape) <= Len(layers.softmax.scores.shape))
    => /\ MaskExpanded
       /\ LET s == layers.softmax
              given == s.mask[1]
              expanded == s.returned[1].mask[1]
              axis == s.mask_expansion_axes[1]
              n == Len(s.scores.shape) - Len(given.shape)
          IN  /\ Len(expanded.shape) = Len(s.scores.shape)
              /\ expanded.shape =
                     SubSeq(given.shape, 1, axis) \o [k \in 1..n |-> 1]
                         \o SubSeq(given.shape, axis + 1, Len(given.shape))
              /\ \A k \in 1..Len(expanded.shape) :
                     expanded.shape[k] \in {1, s.scores.shape[k]}
              /\ \A idx \in Indices(expanded.shape) :
                     expanded.data[idx] =
                         given.data[SubSeq(idx, 1, axis)
                                    \o SubSeq(idx, axis + n + 1, Len(idx))]

\* a [1, T, S] mask with T = S = 2 became [1, 1, T, S] under two heads
C25_Witness ==
    /\ MaskExpanded
    /\ layers.softmax.mask[1].shape = <<1, 2, 2>>
    /\ layers.softmax.scores.shape = <<1, 2, 2, 2>>
    /\ layers.softmax.returned[1].mask[1].shape = <<1, 1, 2, 2>>

\* a [2, 1] mask, one value per sample, became [2, 1, 1, 1]: two axes put in
C25_WitnessTwoAxes ==
    /\ MaskExpanded
    /\ layers.softmax.mask[1].shape = <<2, 1>>
    /\ layers.softmax.mask[1].data[<<0, 0>>] # layers.softmax.mask[1].data[<<1, 0>>]
    /\ layers.softmax.returned[1].mask[1].shape = <<2, 1, 1, 1>>

\* a mask of the scores' rank, left as given
C25_WitnessSameRank ==
    /\ MaskExpanded
    /\ Len(layers.softmax.mask[1].shape) = 4
    /\ layers.softmax.returned[1].mask[1] = layers.softmax.mask[1]

--------------------------------------------------------------------------
(* SelfAttentionMask.call on its own *)

\* a call of SelfAttentionMask.call([from_tensor, to_mask]); of from_tensor
\* the shape alone is read
SelfAttentionMaskCall ==
    /\ layers.self_attention_mask # None
    /\ layers.self_attention_mask.returned = None
    /\ layers' = [layers EXCEPT !.self_attention_mask.returned =
           Some(SelfAttentionMask_call(layers.self_attention_mask.from_shape,
                                       layers.self_attention_mask.to_mask))]
    /\ LayersUnchanged

\* from_tensor [B, T] or [B, T, E], and of a rank the layer refuses
FromShapes ==
    { <<B, T>> : B \in 1..MaxBatchSize, T \in 1..MaxSeq }
    \cup { <<B, T, MaxWidth>> : B \in 1..MaxBatchSize, T \in 1..MaxSeq }
    \cup { <<MaxBatchSize>>, <<MaxBatchSize, MaxSeq, MaxWidth, 1>> }

\* to_mask [B, S] of zeros and ones, and of a rank the layer refuses
ToMasks ==
    UNION { MasksOf(<<B, S>>) : B \in 1..MaxBatchSize, S \in 1..MaxSeq }
    \cup MasksOf(<<MaxSeq>>) \cup MasksOf(<<1, MaxSeq, 1>>)

InitSelfAttentionMask ==
    /\ loader = Opened(<<>>)
    /\ vocab = <<>>
    /\ inv_vocab = <<>>
    /\ unk_token = UNK
    /\ max_input_chars_per_word = DefaultMaxInputChars
    /\ frame = <<>>
    /\ max_sequence_length = 0
    /\ encode = NoEncode
    /\ full = <<>>
    /\ equation = NoEquation
    /\ \E from_shape \in FromShapes, to_mask \in ToMasks :
           layers = [NoLayers EXCEPT !.self_attention_mask =
               [from_shape |-> from_shape, to_mask |-> to_mask,
                returned |-> None]]

NextSelfAttentionMask == SelfAttentionMaskCall

SpecSelfAttentionMask ==
    InitSelfAttentionMask /\ [][NextSelfAttentionMask]_vars

--------------------------------------------------------------------------
(* C26 *)

SelfMaskReturned ==
    /\ layers.self_attention_mask # None
    /\ layers.self_attention_mask.returned # None

\* C26: SelfAttentionMask.call fails for a from_tensor of a rank other than
\* 2 or 3, a to_mask of a rank other than 2 and for different batch sizes;
\* otherwise it returns a mask of shape [batch, from_seq_length,
\* to_seq_length] with mask[b, i, j] = to_mask[b, j] for every i: the value
\* is the same for all positions attended from.
C26_MaskByTarget ==
    SelfMaskReturned =>
        LET s == layers.self_attention_mask
            r == s.returned[1]
        IN  /\ r.raised <=>
                   \/ Len(s.from_shape) \notin {2, 3}
                   \/ Len(s.to_mask.shape) # 2
                   \/ s.to_mask.shape[1] # s.from_shape[1]
            /\ ~r.raised =>
                   /\ r.mask.shape = <<s.from_shape[1], s.from_shape[2],
                                       s.to_mask.shape[2]>>
                   /\ \A idx \in Indices(r.mask.shape) :
                          r.mask.data[idx] = s.to_mask.data[<<idx[1], idx[3]>>]
                   /\ \A idx, other \in Indices(r.mask.shape) :
                          (idx[1] = other[1] /\ idx[3] = other[3])
                              => r.mask.data[idx] = r.mask.data[other]

\* two samples, two from-positions, to_mask [[1, 0], [0, 1]]: the mask rows
\* of a sample are that sample's to_mask row
C26_Witness ==
    /\ SelfMaskReturned
    /\ layers.self_attention_mask.from_shape = <<2, 2, MaxWidth>>
    /\ layers.self_attention_mask.to_mask.data =
           [idx \in Indices(<<2, 2>>) |-> IF idx[1] = idx[2] THEN 1 ELSE 0]
    /\ ~layers.self_attention_mask.returned[1].raised
    /\ layers.self_attention_mask.returned[1].mask.data[<<0, 1, 0>>] = 1
    /\ layers.self_attention_mask.returned[1].mask.data[<<0, 1, 1>>] = 0
    /\ layers.self_attention_mask.returned[1].mask.data[<<1, 0, 0>>] = 0

\* from_seq_length 1 against to_seq_length 2: the mask is [B, 1, 2]
C26_WitnessLengths ==
    /\ SelfMaskReturned
    /\ ~layers.self_attention_mask.returned[1].raised
    /\ layers.self_attention_mask.returned[1].mask.shape = <<1, 1, 2>>

\* different batch sizes: the reshape fails
C26_WitnessRaised ==
    /\ SelfMaskReturned
    /\ layers.self_attention_mask.returned[1].raised
    /\ Len(layers.self_attention_mask.from_shape) = 3
    /\ Len(layers.self_attention_mask.to_mask.shape) = 2

--------------------------------------------------------------------------
(* ObjectDetectionLabelEncoder._match_anchor_boxes *)

\* A box is <<x, y, width, height>> in whole numbers. Corners are kept in
\* halves and areas in quarters, so that they stay whole; an IOU and a
\* threshold are fractions [num, den] with den > 0, compared exactly.

Fraction(num, den) == [num |-> num, den |-> den]

\* a < b and a >= b for fractions
less(a, b) == a.num * b.den < b.num * a.den

greater_equal(a, b) == ~less(a, b)

\* [x - width / 2, y - height / 2, x + width / 2, y + height / 2], in halves
convert_to_corners(box) ==
    <<2 * box[1] - box[3], 2 * box[2] - box[4],
      2 * box[1] + box[3], 2 * box[2] + box[4]>>

maximum(a, b) == IF a >= b THEN a ELSE b

minimum(a, b) == IF a <= b THEN a ELSE b

\* the IOU of one box of boxes1 with one of boxes2:
\* clip(intersection_area / max(area1 + area2 - intersection_area, 1e-8), 0, 1)
compute_iou(box1, box2) ==
    LET c1 == convert_to_corners(box1)
        c2 == convert_to_corners(box2)
        lu == <<maximum(c1[1], c2[1]), maximum(c1[2], c2[2])>>
        rd == <<minimum(c1[3], c2[3]), minimum(c1[4], c2[4])>>
        intersection == <<maximum(0, rd[1] - lu[1]), maximum(0, rd[2] - lu[2])>>
        intersection_area == intersection[1] * intersection[2]
        boxes1_area == 4 * box1[3] * box1[4]
        boxes2_area == 4 * box2[3] * box2[4]
        union_area == boxes1_area + boxes2_area - intersection_area
    IN  IF union_area <= 0 THEN Fraction(0, 1)
        ELSE IF intersection_area > union_area THEN Fraction(1, 1)
        ELSE Fraction(intersection_area, union_area)

\* tf.argmax(row): the first position of a greatest value, 0-based
argmax(row) ==
    Min({ j \in 1..Len(row) :
              \A k \in 1..Len(row) : greater_equal(row[j], row[k]) }) - 1

\* tf.cast(mask, tf.float32) of a boolean: 1.0 or 0.0
cast_float(b) == IF b THEN 1 ELSE 0

\* (matched_gt_idx, positive_mask, ignore_mask), and the row maxima they are
\* decided by
_match_anchor_boxes(anchor_boxes, gt_boxes, match_iou, ignore_iou) ==
    LET iou_matrix == [m \in 1..Len(anchor_boxes) |->
                          [n \in 1..Len(gt_boxes) |->
                              compute_iou(anchor_boxes[m], gt_boxes[n])]]
        matched_gt_idx == [m \in 1..Len(anchor_boxes) |-> argmax(iou_matrix[m])]
        max_iou == [m \in 1..Len(anchor_boxes) |->
                       iou_matrix[m][matched_gt_idx[m] + 1]]
        positive_mask == [m \in 1..Len(anchor_boxes) |->
                             greater_equal(max_iou[m], match_iou)]
        negative_mask == [m \in 1..Len(anchor_boxes) |->
                             less(max_iou[m], ignore_iou)]
        ignore_mask == [m \in 1..Len(anchor_boxes) |->
                           ~(positive_mask[m] \/ negative_mask[m])]
    IN  [max_iou |-> max_iou,
         matched_gt_idx |-> matched_gt_idx,
         positive_mask |-> [m \in 1..Len(anchor_boxes) |->
                               cast_float(positive_mask[m])],
         ignore_mask |-> [m \in 1..Len(anchor_boxes) |->
                             cast_float(ignore_mask[m])]]

\* the class targets of _encode_sample: the matched box's class id, -1 where
\* positive_mask is not 1, -2 where ignore_mask is 1
cls_target(matched, cls_ids) ==
    [m \in 1..Len(matched.positive_mask) |->
        IF matched.ignore_mask[m] = 1 THEN -2
        ELSE IF matched.positive_mask[m] # 1 THEN -1
        ELSE cls_ids[matched.matched_gt_idx[m] + 1]]

\* a call of _match_anchor_boxes with the arguments of the state
MatchAnchorBoxes ==
    /\ layers.label_encoder # None
    /\ layers.label_encoder.matched = None
    /\ layers' = [layers EXCEPT !.label_encoder.matched =
           Some(_match_anchor_boxes(layers.label_encoder.anchor_boxes,
                                    layers.label_encoder.gt_boxes,
                                    layers.label_encoder.match_iou,
                                    layers.label_encoder.ignore_iou))]
    /\ LayersUnchanged

\* the defaults of _match_anchor_boxes: match_iou=0.5, ignore_iou=0.4
default_match_iou == Fraction(1, 2)

default_ignore_iou == Fraction(2, 5)

\* the class targets of _encode_sample: it matches the anchors with the
\* ground-truth boxes itself, always with the default thresholds (the
\* anchors are those of the state, standing for get_anchors' on the image)
_encode_sample(anchor_boxes, gt_boxes, cls_ids) ==
    cls_target(_match_anchor_boxes(anchor_boxes, gt_boxes,
                                   default_match_iou, default_ignore_iou),
               cls_ids)

\* a call of _encode_sample on the boxes of the state
EncodeSampleClasses ==
    /\ layers.label_encoder # None
    /\ layers.label_encoder.cls_target = None
    /\ layers' = [layers EXCEPT !.label_encoder.cls_target =
           Some(_encode_sample(layers.label_encoder.anchor_boxes,
                               layers.label_encoder.gt_boxes,
                               layers.label_encoder.cls_ids))]
    /\ LayersUnchanged

MaxAnchors == 2

MaxObjects == 2

\* boxes with the IOUs 1, 1/2, 2/5, 1/3 and 0 among them
BoxChoices ==
    { <<1, 0, 2, 2>>, <<2, 0, 4, 2>>, <<2, 0, 2, 2>>, <<5, 0, 2, 2>>,
      <<1, 0, 3, 1>> }

\* (match_iou, ignore_iou): the defaults 0.5 and 0.4, and two other pairs
IouThresholds ==
    { <<Fraction(1, 2), Fraction(2, 5)>>, <<Fraction(1, 2), Fraction(1, 3)>>,
      <<Fraction(2, 5), Fraction(1, 3)>> }

InitLabelEncoder ==
    /\ loader = Opened(<<>>)
    /\ vocab = <<>>
    /\ inv_vocab = <<>>
    /\ unk_token = UNK
    /\ max_input_chars_per_word = DefaultMaxInputChars
    /\ frame = <<>>
    /\ max_sequence_length = 0
    /\ encode = NoEncode
    /\ full = <<>>
    /\ equation = NoEquation
    /\ \E anchor_boxes \in SeqsUpTo(BoxChoices, MaxAnchors) \ {<<>>},
          gt_boxes \in SeqsUpTo(BoxChoices, MaxObjects) \ {<<>>},
          thresholds \in IouThresholds :
           layers = [NoLayers EXCEPT !.label_encoder =
               [anchor_boxes |-> anchor_boxes, gt_boxes |-> gt_boxes,
                match_iou |-> thresholds[1], ignore_iou |-> thresholds[2],
                cls_ids |-> [n \in 1..Len(gt_boxes) |-> n + 6],
                matched |-> None, cls_target |-> None]]

NextLabelEncoder == MatchAnchorBoxes \/ EncodeSampleClasses

SpecLabelEncoder == InitLabelEncoder /\ [][NextLabelEncoder]_vars

--------------------------------------------------------------------------
(* C27 *)

AnchorsMatched ==
    layers.label_encoder # None /\ layers.label_encoder.matched # None

\* the greatest IOU of anchor m with a ground-truth box
MaxIou(m) ==
    LET e == layers.label_encoder
        best == CHOOSE n \in 1..Len(e.gt_boxes) :
                    \A k \in 1..Len(e.gt_boxes) :
                        greater_equal(compute_iou(e.anchor_boxes[m], e.gt_boxes[n]),
                                      compute_iou(e.anchor_boxes[m], e.gt_boxes[k]))
    IN  compute_iou(e.anchor_boxes[m], e.gt_boxes[best])

\* anchor m is matched, background or ignored by the masks returned
IsMatched(m) == layers.label_encoder.matched[1].positive_mask[m] = 1

IsIgnored(m) == layers.label_encoder.matched[1].ignore_mask[m] = 1

IsBackground(m) == ~IsMatched(m) /\ ~IsIgnored(m)

\* the box an anchor is matched to has the anchor's greatest IOU
MatchedToGreatest(m) ==
    LET e == layers.label_encoder
        n == e.matched[1].matched_gt_idx[m] + 1
    IN  /\ n \in 1..Len(e.gt_boxes)
        /\ ~less(compute_iou(e.anchor_boxes[m], e.gt_boxes[n]), MaxIou(m))
        /\ ~less(MaxIou(m), compute_iou(e.anchor_boxes[m], e.gt_boxes[n]))

\* C27: every anchor is in exactly one of three classes: matched, to a
\* ground-truth box of its greatest IOU, exactly when that IOU is greater
\* than match_iou; background exactly when it is less than ignore_iou;
\* ignored otherwise. positive_mask and ignore_mask are never both 1, and
\* the class targets of _encode_sample follow the classes.
C27_ThreeClasses ==
    AnchorsMatched =>
        \A m \in 1..Len(layers.label_encoder.anchor_boxes) :
            /\ IsMatched(m) <=> less(layers.label_encoder.match_iou, MaxIou(m))
            /\ IsBackground(m) <=> less(MaxIou(m), layers.label_encoder.ignore_iou)
            /\ IsIgnored(m) <=>
                   /\ ~less(layers.label_encoder.match_iou, MaxIou(m))
                   /\ ~less(MaxIou(m), layers.label_encoder.ignore_iou)
            /\ ~(IsMatched(m) /\ IsIgnored(m))
            /\ MatchedToGreatest(m)

\* what the code does: matched exactly when the greatest IOU is at least
\* match_iou, background when it is less than ignore_iou, ignored when it
\* is at least ignore_iou and less than match_iou; the class target of
\* _encode_sample is the class id of the box of greatest IOU, -1 for
\* background and -2 for ignored, by the default thresholds whatever the
\* thresholds of the call of _match_anchor_boxes
C27_ThreeClassesFromThreshold ==
    AnchorsMatched =>
        \A m \in 1..Len(layers.label_encoder.anchor_boxes) :
            /\ IsMatched(m) <=>
                   greater_equal(MaxIou(m), layers.label_encoder.match_iou)
            /\ IsBackground(m) <=> less(MaxIou(m), layers.label_encoder.ignore_iou)
            /\ IsIgnored(m) <=>
                   /\ less(MaxIou(m), layers.label_encoder.match_iou)
                   /\ greater_equal(MaxIou(m), layers.label_encoder.ignore_iou)
            /\ ~(IsMatched(m) /\ IsIgnored(m))
            /\ MatchedToGreatest(m)
            /\ layers.label_encoder.cls_target # None =>
                   layers.label_encoder.cls_target[1][m] =
                       IF /\ less(MaxIou(m), default_match_iou)
                          /\ greater_equal(MaxIou(m), default_ignore_iou)
                       THEN -2
                       ELSE IF less(MaxIou(m), default_ignore_iou) THEN -1
                       ELSE layers.label_encoder.cls_ids[
                                layers.label_encoder.matched[1].matched_gt_idx[m] + 1]

\* the anchor [1, 0, 2, 2] against the box [2, 0, 4, 2] with the default
\* thresholds: the IOU is 1/2, equal to match_iou, and the anchor is matched
C27_WitnessAtThreshold ==
    /\ AnchorsMatched
    /\ layers.label_encoder.anchor_boxes = << <<1, 0, 2, 2>> >>
    /\ layers.label_encoder.gt_boxes = << <<2, 0, 4, 2>> >>
    /\ layers.label_encoder.match_iou = Fraction(1, 2)
    /\ layers.label_encoder.ignore_iou = Fraction(2, 5)
    /\ layers.label_encoder.matched[1].max_iou = << Fraction(16, 32) >>
    /\ IsMatched(1)
    /\ layers.label_encoder.cls_target = Some(<<7>>)

\* two anchors, one ignored (IOU 2/5) and one background (IOU 0)
C27_WitnessClasses ==
    /\ AnchorsMatched
    /\ layers.label_encoder.match_iou = Fraction(1, 2)
    /\ layers.label_encoder.ignore_iou = Fraction(2, 5)
    /\ Len(layers.label_encoder.anchor_boxes) = 2
    /\ IsIgnored(1)
    /\ IsBackground(2)
    /\ layers.label_encoder.cls_target = Some(<<-2, -1>>)

--------------------------------------------------------------------------
(* C28 *)

\* a call of tokenize is one thread of control that runs until it returns:
\* a step that can be taken is taken
SpecWordpieceFair ==
    InitWordpiece /\ [][NextWordpiece]_vars /\ WF_vars(NextWordpiece)

\* every call has reached its return statement
TokenizeReturned == \A t \in Threads : frame[t].pc = "return"

\* a step of the two loops moves the cursors as the loops are written: after
\* a match start moves up to end, which is greater and at most len(chars);
\* without a match the outer loop is left with is_bad set; a failed lookup
\* takes end down by one, not below start
CursorsAdvance ==
    \A t \in Threads :
        LET f == frame[t]
            g == frame'[t]
        IN  /\ (f.pc = "if_none" /\ f.cur_substr # None) =>
                   /\ g.start = f.end
                   /\ g.start > f.start
                   /\ g.start <= Len(f.chars)
                   /\ g.pc = "while_start"
            /\ (f.pc = "if_none" /\ f.cur_substr = None) =>
                   /\ f.end = f.start
                   /\ g.is_bad
                   /\ g.pc = "emit"
            /\ (f.pc = "while_end" /\ g.pc = "while_end") =>
                   /\ g.end = f.end - 1
                   /\ g.end >= f.start
                   /\ g.start = f.start
            /\ g.i >= f.i

\* C28: WordpieceTokenizer.tokenize returns for every text and vocabulary:
\* every matched piece moves start strictly up (its end is greater than
\* start), the outer loop is left at the first position without a match, the
\* inner loop takes end strictly down, to start at the lowest, and the call
\* reaches its return statement.
C28_Terminates == [][CursorsAdvance]_vars /\ <>TokenizeReturned

\* "unaffable" returned in three pieces
C28_Witness ==
    \E t \in Threads :
        /\ frame[t].pc = "return"
        /\ frame[t].text = Unaffable
        /\ frame[t].output_tokens = UnaffableVocab

\* a text of two tokens returned, the first replaced by unk_token after the
\* inner loop ran end down to start
C28_WitnessUnknown ==
    \E t \in Threads :
        /\ frame[t].pc = "return"
        /\ Len(frame[t].tokens) = 2
        /\ frame[t].output_tokens[1] = unk_token
        /\ frame[t].output_tokens[2] # unk_token

--------------------------------------------------------------------------
(* MultiCategoryEncoding *)

INT == "int"

NONE == "none"

ONE_HOT == "one-hot"

RECURSIVE encoding_layers_loop(_, _, _)
\* for encoding in self.encoding, from the k-th on: a slot "None" for NONE
\* and ONE_HOT, a StringLookup for INT, nothing for any other string
encoding_layers_loop(encoding, k, encoding_layers) ==
    IF k > Len(encoding) THEN encoding_layers
    ELSE IF encoding[k] = NONE
    THEN encoding_layers_loop(encoding, k + 1, Append(encoding_layers, "None"))
    ELSE IF encoding[k] = INT
    THEN encoding_layers_loop(encoding, k + 1,
                              Append(encoding_layers, "StringLookup"))
    ELSE IF encoding[k] = ONE_HOT
    THEN encoding_layers_loop(encoding, k + 1, Append(encoding_layers, "None"))
    ELSE encoding_layers_loop(encoding, k + 1, encoding_layers)

\* MultiCategoryEncoding(encoding)
MultiCategoryEncoding_init(encoding) ==
    [encoding |-> encoding,
     encoding_layers |-> encoding_layers_loop(encoding, 1, <<>>)]

\* tf.where(tf.math.is_nan(number), tf.zeros_like(number), number)
imputed(number) == IF number = NaN THEN Finite(0) ELSE number

\* the output node of one column: the number with NaN replaced, or the
\* slot's StringLookup applied to the column
output_node(input_node, encoding_layer) ==
    IF encoding_layer = "None"
    THEN [op |-> "imputed", value |-> imputed(input_node)]
    ELSE [op |-> "StringLookup", value |-> input_node]

\* MultiCategoryEncoding.call on one row: tf.split into len(encoding) columns
\* fails unless the row has that many; zip pairs columns and slots up to the
\* shorter of the two; one output node is returned as it is, several are
\* concatenated, none cannot be
MultiCategoryEncoding_call(self, inputs) ==
    LET n == minimum(Len(inputs), Len(self.encoding_layers))
        output_nodes == [k \in 1..n |->
                            output_node(inputs[k], self.encoding_layers[k])]
    IN  IF Len(inputs) # Len(self.encoding) \/ n = 0
        THEN [raised |-> TRUE, output_nodes |-> <<>>]
        ELSE [raised |-> FALSE, output_nodes |-> output_nodes]

\* the construction of the layer for the encoding list of the state
MultiCategoryEncodingInit ==
    /\ layers.encoding # None
    /\ layers.encoding.constructed = None
    /\ layers' = [layers EXCEPT !.encoding.constructed =
           Some(MultiCategoryEncoding_init(layers.encoding.encoding))]
    /\ LayersUnchanged

\* a call of MultiCategoryEncoding.call with the row of the state
MultiCategoryEncodingCall ==
    /\ layers.encoding # None
    /\ layers.encoding.constructed # None
    /\ layers.encoding.returned = None
    /\ layers' = [layers EXCEPT !.encoding.returned =
           Some(MultiCategoryEncoding_call(layers.encoding.constructed[1],
                                           layers.encoding.inputs))]
    /\ LayersUnchanged

MaxColumns == 3

\* the three encodings the layer knows and one it does not
EncodingNames == {INT, NONE, ONE_HOT, "frequency"}

\* rows of n columns, column c holding the number c or NaN, and a row of one
\* column more
RowsOf(n) ==
    { row \in [1..n -> {NaN} \cup { Finite(c) : c \in 1..n }] :
          \A c \in 1..n : row[c] \in {NaN, Finite(c)} }
    \cup { [c \in 1..(n + 1) |-> Finite(c)] }

InitEncoding ==
    /\ loader = Opened(<<>>)
    /\ vocab = <<>>
    /\ inv_vocab = <<>>
    /\ unk_token = UNK
    /\ max_input_chars_per_word = DefaultMaxInputChars
    /\ frame = <<>>
    /\ max_sequence_length = 0
    /\ encode = NoEncode
    /\ full = <<>>
    /\ equation = NoEquation
    /\ \E encoding \in SeqsUpTo(EncodingNames, MaxColumns) \ {<<>>} :
           \E inputs \in RowsOf(Len(encoding)) :
               layers = [NoLayers EXCEPT !.encoding =
                   [encoding |-> encoding, constructed |-> None,
                    inputs |-> inputs, returned |-> None]]

NextEncoding == MultiCategoryEncodingInit \/ MultiCategoryEncodingCall

SpecEncoding == InitEncoding /\ [][NextEncoding]_vars

--------------------------------------------------------------------------
(* C30 *)

\* the slot an encoding calls for
SlotFor(encoding) == IF encoding = INT THEN "StringLookup" ELSE "None"

\* one slot per column, slot i made for column i; a call on a row of as many
\* columns returns one output node per column, column k's made by slot k
OneSlotPerColumn ==
    LET self == layers.encoding.constructed[1]
        inputs == layers.encoding.inputs
    IN  /\ Len(self.encoding_layers) = Len(self.encoding)
        /\ \A i \in 1..Len(self.encoding) :
               self.encoding_layers[i] = SlotFor(self.encoding[i])
        /\ (layers.encoding.returned # None /\ Len(inputs) = Len(self.encoding)) =>
               /\ ~layers.encoding.returned[1].raised
               /\ Len(layers.encoding.returned[1].output_nodes) = Len(inputs)
               /\ \A k \in 1..Len(inputs) :
                      layers.encoding.returned[1].output_nodes[k] =
                          output_node(inputs[k], SlotFor(self.encoding[k]))

\* C30: for every encoding list, construction leaves one encoding-layer slot
\* per column (as many slots as encodings, slot i that of column i), and call
\* pairs every column with its own slot and returns one output column per
\* input column, in column order, none dropped.
C30_OneSlotPerColumn ==
    (layers.encoding # None /\ layers.encoding.constructed # None)
        => OneSlotPerColumn

\* for lists of the encodings int, none and one-hot alone this holds
C30_OneSlotPerKnownColumn ==
    (/\ layers.encoding # None
     /\ layers.encoding.constructed # None
     /\ Range(layers.encoding.encoding) \subseteq {INT, NONE, ONE_HOT})
        => OneSlotPerColumn

\* [int, none, int] called on a row with NaN in the middle: three columns out
C30_Witness ==
    /\ layers.encoding # None
    /\ layers.encoding.encoding = <<INT, NONE, INT>>
    /\ layers.encoding.inputs = <<Finite(1), NaN, Finite(3)>>
    /\ layers.encoding.returned # None
    /\ layers.encoding.returned[1].output_nodes =
           <<[op |-> "StringLookup", value |-> Finite(1)],
             [op |-> "imputed", value |-> Finite(0)],
             [op |-> "StringLookup", value |-> Finite(3)]>>

\* [none, frequency, int]: two slots for three columns; the second column
\* goes through the third column's StringLookup and the third is dropped
C30_WitnessUnknownEncoding ==
    /\ layers.encoding # None
    /\ layers.encoding.encoding = <<NONE, "frequency", INT>>
    /\ layers.encoding.constructed # None
    /\ layers.encoding.constructed[1].encoding_layers = <<"None", "StringLookup">>
    /\ layers.encoding.inputs = <<Finite(1), Finite(2), Finite(3)>>
    /\ layers.encoding.returned # None
    /\ ~layers.encoding.returned[1].raised
    /\ layers.encoding.returned[1].output_nodes =
           <<[op |-> "imputed", value |-> Finite(1)],
             [op |-> "StringLookup", value |-> Finite(2)]>>

--------------------------------------------------------------------------
(* C29 *)

\* piece k of the pieces without the "##" put in front of it: the first
\* piece as it is, a later piece without its first two characters
WithoutAddedPrefix(pieces, k) ==
    IF k = 1 THEN pieces[k] ELSE SubSeq(pieces[k], 3, Len(pieces[k]))

\* the pieces reproduce the token: every later piece begins with "##", no
\* piece is empty once that prefix is left out, and the pieces without it,
\* concatenated in order, are the token
Reproduces(pieces, token) ==
    /\ pieces # <<>>
    /\ \A k \in 2..Len(pieces) :
           /\ Len(pieces[k]) > 2
           /\ SubSeq(pieces[k], 1, 2) = ContinuationMarker
    /\ \A k \in 1..Len(pieces) : WithoutAddedPrefix(pieces, k) # <<>>
    /\ Flatten([k \in 1..Len(pieces) |-> WithoutAddedPrefix(pieces, k)]) = token

\* C29: when WordpieceTokenizer.tokenize does not replace a token by
\* unk_token, the pieces it emits for the token reproduce it: the first piece
\* has no "##" added, every later piece has exactly one, and the pieces
\* without the added "##", concatenated in order, are the token; the pieces
\* are what the call appends to its output for the token.
C29_PiecesReproduceToken ==
    \A t \in Threads :
        LET f == frame[t] IN
        /\ (f.pc = "emit" /\ ~f.is_bad) =>
               /\ Reproduces(f.sub_tokens, f.chars)
               /\ f.sub_tokens[1] = SubSeq(f.chars, 1, Len(f.sub_tokens[1]))
        /\ (/\ f.pc = "for_token"
            /\ f.i > 0
            /\ Len(f.chars) <= max_input_chars_per_word
            /\ ~f.is_bad) =>
               /\ Reproduces(f.sub_tokens, f.chars)
               /\ Len(f.output_tokens) >= Len(f.sub_tokens)
               /\ LastN(f.output_tokens, Len(f.sub_tokens)) = f.sub_tokens

\* the token "a#" emitted as "a" and "###": the second piece is the added
\* "##" and the token's own "#"
C29_Witness ==
    \E t \in Threads :
        /\ frame[t].pc = "for_token"
        /\ frame[t].chars = <<"a", "#">>
        /\ ~frame[t].is_bad
        /\ frame[t].output_tokens = << <<"a">>, <<"#", "#", "#">> >>

\* the token "##a", itself beginning with "##", emitted whole as first piece
C29_WitnessMarkedToken ==
    \E t \in Threads :
        /\ frame[t].pc = "emit"
        /\ ~frame[t].is_bad
        /\ frame[t].chars = <<"#", "#", "a">>
        /\ frame[t].sub_tokens = << <<"#", "#", "a">> >>

\* "unaffable" emitted in three pieces
C29_WitnessThreePieces ==
    \E t \in Threads :
        /\ frame[t].pc = "emit"
        /\ ~frame[t].is_bad
        /\ frame[t].chars = Unaffable
        /\ Len(frame[t].sub_tokens) = 3

\* _match_anchor_boxes called with the thresholds 2/5 and 1/3 matches an
\* anchor of IOU 2/5, while _encode_sample, with the defaults, ignores it
C27_WitnessDefaults ==
    /\ AnchorsMatched
    /\ layers.label_encoder.anchor_boxes = << <<1, 0, 2, 2>> >>
    /\ layers.label_encoder.gt_boxes = << <<1, 0, 3, 1>> >>
    /\ layers.label_encoder.match_iou = Fraction(2, 5)
    /\ IsMatched(1)
    /\ layers.label_encoder.cls_target = Some(<<-2>>)

Spec == SpecVocab

=============================================================================
